---- MODULE Spec2Model ----
(***************************************************************************)
(* Synthetic monitoring engine of moltworker (src/monitoring):             *)
(* runMonitoringChecks loads the persisted state, probes every configured  *)
(* check in order, runs the health state machine (computeTransition),      *)
(* records a bounded history, dispatches alerts and saves the state.       *)
(***************************************************************************)
EXTENDS Integers, Sequences, FiniteSets, TLC

\* ------------------------------------------------------------------ bounds
\* Total number of probes one behaviour may perform.
MaxProbes == 4
\* Failure thresholds range over 1..MaxThreshold.
MaxThreshold == 3
\* Largest stored consecutiveFailures of a prior state handed to
\* computeTransition on its own.
MaxFailures == 3
\* Tag lists handed to shouldChannelReceive on its own have up to MaxTags tags.
MaxTags == 2
\* Evaluations one check is followed through on its own.
MaxEvaluations == 6
\* Largest retry_count of a check handed to runCheck on its own.
MaxRetries == 1

\* ------------------------------------------------------- program constants
HistoryLimit == 288
DefaultExpectedStatus == 200
DefaultTimeoutMs == 10000

\* ------------------------------------------------------------ value model
\* A nullable value (T | null, or an optional field): Null, or Some(v).
Null == <<>>
Some(v) == <<v>>
Get(opt) == opt[1]
\* a ?? b
OrElse(opt, dflt) == IF opt = Null THEN dflt ELSE Get(opt)

Last(s) == s[Len(s)]

\* slice(0, n) for slice(-n): the first n elements.
SliceFirst(s, n) == IF Len(s) <= n THEN s ELSE SubSeq(s, 1, n)

\* Array.prototype.slice(-n): the last n elements (all of them if fewer).
SliceLast(s, n) == IF Len(s) <= n THEN s ELSE SubSeq(s, Len(s) - n + 1, Len(s))

\* ------------------------------------------------------------ error texts
\* An error string, kept as its template and the numbers substituted into it.
ErrExpectedStatus(expected, got) ==
    [text |-> "Expected status %1, got %2", args |-> <<expected, got>>]
ErrTimeout(timeoutMs) == [text |-> "Timeout after %1ms", args |-> <<timeoutMs>>]
ErrMessage(message) == [text |-> message, args |-> <<>>]

\* ---------------------------------------------------------- configuration
CampermateWebsite ==
    [id |-> "campermate-website", name |-> "Campermate Website",
     expectedStatus |-> Some(200), timeoutMs |-> Null,
     failureThreshold |-> Null, tags |-> Some(<<"production">>)]

SandboxHealth ==
    [id |-> "sandbox-health", name |-> "Moltworker Health",
     expectedStatus |-> Some(200), timeoutMs |-> Null,
     failureThreshold |-> Null, tags |-> Some(<<"infrastructure">>)]

Channels ==
    << [type |-> "slack", enabled |-> FALSE, tags |-> Null],
       [type |-> "telegram", enabled |-> TRUE, tags |-> Null],
       [type |-> "email", enabled |-> FALSE, tags |-> Null] >>

\* The check lists a deployment is configured with: the first check alone,
\* both checks, and both with a per-check failureThreshold on the second.
CheckLists ==
    { <<CampermateWebsite>>,
      <<CampermateWebsite, SandboxHealth>>,
      <<CampermateWebsite, [SandboxHealth EXCEPT !.failureThreshold = Some(1)]>> }

monitoringConfig(checks, threshold) ==
    [checks |-> checks, channels |-> Channels,
     defaultFailureThreshold |-> threshold,
     defaultTimeoutMs |-> DefaultTimeoutMs]

Statuses == {"unknown", "healthy", "degraded", "unhealthy"}

\* ------------------------------------------------------------------ state
\* Record<string, CheckState> with no key.
EmptyChecks == [k \in {} |-> Null]

createEmptyState == [checks |-> EmptyChecks, lastRun |-> Null]

createEmptyCheckState(id) ==
    [id |-> id, status |-> "unknown", consecutiveFailures |-> 0,
     lastCheck |-> Null, lastSuccess |-> Null, lastError |-> Null,
     responseTimeMs |-> Null, history |-> <<>>]

\* --------------------------------------------------------------- the probe
\* What fetch() does to one probe: a response with a status code, or a
\* throw; an abort is thrown when the timer fires, timeoutMs after the start.
FetchOutcomes(timeoutMs) ==
    { [kind |-> "response", status |-> 200, isError |-> FALSE,
       message |-> "", elapsedMs |-> 100],
      [kind |-> "response", status |-> 503, isError |-> FALSE,
       message |-> "", elapsedMs |-> 200],
      [kind |-> "throw", status |-> 0, isError |-> TRUE,
       message |-> "The operation was aborted", elapsedMs |-> timeoutMs],
      [kind |-> "throw", status |-> 0, isError |-> TRUE,
       message |-> "fetch failed", elapsedMs |-> 5] }

\* message.includes('abort') on the messages fetch() throws with.
IncludesAbort(message) == message \in {"The operation was aborted", "Software caused connection abort"}

\* Any 2xx status taken for a success.
runCheck_Any2xx(check, outcome, timeoutMs) ==
    IF outcome.kind = "response"
    THEN LET expectedStatus == OrElse(check.expectedStatus, DefaultExpectedStatus)
             success == outcome.status \in 200..299
         IN [id |-> check.id, success |-> success,
             statusCode |-> Some(outcome.status),
             responseTimeMs |-> outcome.elapsedMs,
             error |-> IF success THEN Null
                       ELSE Some(ErrExpectedStatus(expectedStatus, outcome.status))]
    ELSE LET message == IF outcome.isError THEN outcome.message ELSE "Unknown error"
             isTimeout == IncludesAbort(message)
         IN [id |-> check.id, success |-> FALSE, statusCode |-> Null,
             responseTimeMs |-> outcome.elapsedMs,
             error |-> Some(IF isTimeout THEN ErrTimeout(timeoutMs)
                            ELSE ErrMessage(message))]

runCheck(check, outcome, timeoutMs) ==
    IF outcome.kind = "response"
    THEN LET expectedStatus == OrElse(check.expectedStatus, DefaultExpectedStatus)
             success == outcome.status = expectedStatus
         IN [id |-> check.id, success |-> success,
             statusCode |-> Some(outcome.status),
             responseTimeMs |-> outcome.elapsedMs,
             error |-> IF success THEN Null
                       ELSE Some(ErrExpectedStatus(expectedStatus, outcome.status))]
    ELSE LET message == IF outcome.isError THEN outcome.message ELSE "Unknown error"
             isTimeout == IncludesAbort(message)
         IN [id |-> check.id, success |-> FALSE, statusCode |-> Null,
             responseTimeMs |-> outcome.elapsedMs,
             error |-> Some(IF isTimeout THEN ErrTimeout(timeoutMs)
                            ELSE ErrMessage(message))]

\* ------------------------------------------------------- the state machine
\* computeTransition with one deviation built in, named by bug; the
\* properties below are tried against each of them.
transitionWith(state, result, threshold, now, bug) ==
    LET updated == [state EXCEPT !.lastCheck = Some(now),
                                 !.responseTimeMs = Some(result.responseTimeMs)]
    IN IF result.success
       THEN LET wasUnhealthy ==
                    IF bug = "recovery from degraded"
                    THEN state.status \in {"unhealthy", "degraded"}
                    ELSE state.status = "unhealthy"
            IN [newState |->
                    [updated EXCEPT
                        !.status = IF bug = "status kept" THEN state.status
                                   ELSE "healthy",
                        !.consecutiveFailures =
                            IF bug = "no reset" THEN state.consecutiveFailures ELSE 0,
                        !.lastSuccess = Some(now),
                        !.lastError = IF bug = "error cleared" THEN Null
                                      ELSE state.lastError],
                alertType |-> IF wasUnhealthy THEN Some("recovery") ELSE Null]
       ELSE LET failed == [updated EXCEPT
                               !.consecutiveFailures = state.consecutiveFailures + 1,
                               !.lastSuccess = IF bug = "success stamped"
                                               THEN Some(now) ELSE state.lastSuccess,
                               !.lastError = result.error]
                reached == IF bug = "strict threshold"
                           THEN failed.consecutiveFailures > threshold
                           ELSE failed.consecutiveFailures >= threshold
            IN IF reached
               THEN LET wasAlreadyUnhealthy ==
                            bug # "repeated alert" /\ state.status = "unhealthy"
                    IN [newState |-> [failed EXCEPT !.status = "unhealthy"],
                        alertType |-> IF wasAlreadyUnhealthy THEN Null
                                      ELSE Some("failure")]
               ELSE [newState |->
                        [failed EXCEPT
                            !.status = IF bug = "unhealthy kept"
                                          /\ state.status = "unhealthy"
                                       THEN "unhealthy" ELSE "degraded"],
                     alertType |-> Null]

\* A recovery alert also when a degraded check recovers.
computeTransition_RecoveryFromDegraded(state, result, threshold, now) ==
    transitionWith(state, result, threshold, now, "recovery from degraded")

\* The threshold compared with > for >=.
computeTransition_StrictThreshold(state, result, threshold, now) ==
    transitionWith(state, result, threshold, now, "strict threshold")

\* An unhealthy check stays unhealthy on a failure below the threshold.
computeTransition_UnhealthyKept(state, result, threshold, now) ==
    transitionWith(state, result, threshold, now, "unhealthy kept")

\* consecutiveFailures not reset on success.
computeTransition_NoReset(state, result, threshold, now) ==
    transitionWith(state, result, threshold, now, "no reset")

\* A failure alert on every failure at or over the threshold.
computeTransition_RepeatedAlert(state, result, threshold, now) ==
    transitionWith(state, result, threshold, now, "repeated alert")

\* lastSuccess set by a failure too.
computeTransition_SuccessStamped(state, result, threshold, now) ==
    transitionWith(state, result, threshold, now, "success stamped")

\* The status not set on success.
computeTransition_StatusKept(state, result, threshold, now) ==
    transitionWith(state, result, threshold, now, "status kept")

\* lastError cleared on success.
computeTransition_ErrorCleared(state, result, threshold, now) ==
    transitionWith(state, result, threshold, now, "error cleared")

computeTransition(state, result, threshold, now) ==
    LET updated == [state EXCEPT !.lastCheck = Some(now),
                                 !.responseTimeMs = Some(result.responseTimeMs)]
    IN IF result.success
       THEN LET wasUnhealthy == state.status = "unhealthy"
            IN [newState |-> [updated EXCEPT !.status = "healthy",
                                             !.consecutiveFailures = 0,
                                             !.lastSuccess = Some(now),
                                             !.lastError = state.lastError],
                alertType |-> IF wasUnhealthy THEN Some("recovery") ELSE Null]
       ELSE LET failed == [updated EXCEPT
                               !.consecutiveFailures = state.consecutiveFailures + 1,
                               !.lastError = result.error]
            IN IF failed.consecutiveFailures >= threshold
               THEN LET wasAlreadyUnhealthy == state.status = "unhealthy"
                    IN [newState |-> [failed EXCEPT !.status = "unhealthy"],
                        alertType |-> IF wasAlreadyUnhealthy THEN Null
                                      ELSE Some("failure")]
               ELSE [newState |-> [failed EXCEPT !.status = "degraded"],
                     alertType |-> Null]

\* The entry's error taken from the state's lastError, not from the result.
recordHistory_LastError(newState, result, now) ==
    LET pushed == Append(newState.history,
                         [timestamp |-> now, status |-> newState.status,
                          responseTimeMs |-> result.responseTimeMs,
                          error |-> newState.lastError])
    IN [newState EXCEPT !.history = IF Len(pushed) > HistoryLimit
                                    THEN SliceLast(pushed, HistoryLimit)
                                    ELSE pushed]

\* The history entry of one evaluation, pushed and trimmed to the limit.
recordHistory(newState, result, now) ==
    LET pushed == Append(newState.history,
                         [timestamp |-> now, status |-> newState.status,
                          responseTimeMs |-> result.responseTimeMs,
                          error |-> result.error])
    IN [newState EXCEPT !.history = IF Len(pushed) > HistoryLimit
                                    THEN SliceLast(pushed, HistoryLimit)
                                    ELSE pushed]

\* state.checks[id] ?? createEmptyCheckState(id)
checkStateOf(state, id) ==
    IF id \in DOMAIN state.checks THEN state.checks[id]
    ELSE createEmptyCheckState(id)

\* The map rebuilt around the one entry.
setCheckState_OthersDropped(state, id, newState) ==
    [state EXCEPT !.checks = [k \in {id} |-> newState]]

\* state.checks[id] = newState
setCheckState(state, id, newState) ==
    [state EXCEPT !.checks = [k \in DOMAIN state.checks \cup {id} |->
                                 IF k = id THEN newState ELSE state.checks[k]]]

\* The per-check failureThreshold ignored.
thresholdOf_DefaultOnly(config, check) == config.defaultFailureThreshold

timeoutOf(config, check) == OrElse(check.timeoutMs, config.defaultTimeoutMs)
thresholdOf(config, check) == OrElse(check.failureThreshold, config.defaultFailureThreshold)

\* One pass of the loop body up to the alert decision.
evaluate(state, config, check, outcome, now) ==
    LET timeoutMs == timeoutOf(config, check)
        threshold == thresholdOf(config, check)
        checkState == checkStateOf(state, check.id)
        result == runCheck(check, outcome, timeoutMs)
        tr == computeTransition(checkState, result, threshold, now)
        newState == recordHistory(tr.newState, result, now)
    IN [state |-> setCheckState(state, check.id, newState),
        newState |-> newState, result |-> result, alertType |-> tr.alertType]

\* ---------------------------------------------------------------- alerts
\* A tagged channel that takes the alerts of a check without tags.
shouldChannelReceive_UntaggedCheck(channel, check) ==
    IF ~channel.enabled THEN FALSE
    ELSE IF channel.tags = Null \/ Len(Get(channel.tags)) = 0 THEN TRUE
    ELSE IF check.tags = Null \/ Len(Get(check.tags)) = 0 THEN TRUE
    ELSE \E a \in 1..Len(Get(channel.tags)) :
            \E b \in 1..Len(Get(check.tags)) :
                Get(channel.tags)[a] = Get(check.tags)[b]

\* The enabled flag not looked at.
shouldChannelReceive_EnabledIgnored(channel, check) ==
    IF channel.tags = Null \/ Len(Get(channel.tags)) = 0 THEN TRUE
    ELSE IF check.tags = Null \/ Len(Get(check.tags)) = 0 THEN FALSE
    ELSE \E a \in 1..Len(Get(channel.tags)) :
            \E b \in 1..Len(Get(check.tags)) :
                Get(channel.tags)[a] = Get(check.tags)[b]

shouldChannelReceive(channel, check) ==
    IF ~channel.enabled THEN FALSE
    ELSE IF channel.tags = Null \/ Len(Get(channel.tags)) = 0 THEN TRUE
    ELSE IF check.tags = Null \/ Len(Get(check.tags)) = 0 THEN FALSE
    ELSE \E a \in 1..Len(Get(channel.tags)) :
            \E b \in 1..Len(Get(check.tags)) :
                Get(channel.tags)[a] = Get(check.tags)[b]

\* The first credential of a channel type standing for all of them.
hasCredentials_FirstOnly(type, env) ==
    CASE type = "slack" -> env.SLACK_WEBHOOK_URL
      [] type = "telegram" -> env.TELEGRAM_BOT_TOKEN
      [] type = "email" -> env.RESEND_API_KEY
      [] OTHER -> FALSE

\* The credentials a channel type needs are all set in the environment.
hasCredentials(type, env) ==
    CASE type = "slack" -> env.SLACK_WEBHOOK_URL
      [] type = "telegram" -> env.TELEGRAM_BOT_TOKEN /\ env.MONITORING_TELEGRAM_CHAT_ID
      [] type = "email" -> env.RESEND_API_KEY /\ env.RESEND_FROM_EMAIL
                           /\ env.MONITORING_EMAIL_TO
      [] OTHER -> FALSE

\* The payload built around a fresh check state, not the one handed in.
alertPayload_FreshState(alertType, check, checkState, result, now) ==
    [type |-> alertType, check |-> check.id,
     checkState |-> createEmptyCheckState(check.id),
     result |-> result, timestamp |-> now]

alertPayload(alertType, check, checkState, result, now) ==
    [type |-> alertType, check |-> check.id, checkState |-> checkState,
     result |-> result, timestamp |-> now]

\* The sends dispatchAlerts starts, in channel order.
RECURSIVE alertTasks(_, _, _, _)
alertTasks(channels, check, env, payload) ==
    IF channels = <<>> THEN <<>>
    ELSE LET channel == Head(channels)
             rest == alertTasks(Tail(channels), check, env, payload)
         IN IF shouldChannelReceive(channel, check) /\ hasCredentials(channel.type, env)
            THEN <<[channel |-> channel.type, payload |-> payload]>> \o rest
            ELSE rest

\* What a send to a channel ends as: the webhook answers 2xx, or it answers
\* anything else or the fetch throws, and the send function throws.
SendOutcomes == {"sent", "failed"}

\* The promises dispatchAlerts collects: one per send started, not yet settled.
startTasks(started) ==
    [k \in 1..Len(started) |-> [channel |-> started[k].channel, outcome |-> "pending"]]

\* A send whose rejection is not handled.
caught_Rethrown(outcome) ==
    CASE outcome = "pending" -> "pending"
      [] outcome = "sent" -> "fulfilled"
      [] OTHER -> "rejected"

\* send(...).catch((err) => console.error(...)): the promise pushed to tasks.
caught(outcome) == IF outcome = "pending" THEN "pending" ELSE "fulfilled"

\* The sends not waited for.
PromiseAll_NotAwaited(tasks) == "fulfilled"

\* await Promise.all(tasks): rejected once a task is, fulfilled once all are.
PromiseAll(tasks) ==
    IF \E k \in 1..Len(tasks) : caught(tasks[k].outcome) = "rejected" THEN "rejected"
    ELSE IF \A k \in 1..Len(tasks) : caught(tasks[k].outcome) = "fulfilled"
    THEN "fulfilled"
    ELSE "pending"

\* ------------------------------------------------------------ persistence
\* JSON.stringify of a state, and JSON.parse of an object's text (which throws
\* on text that is no JSON).
JSONstringify(state) == [valid |-> TRUE, value |-> state]

\* loadState without its try/catch: a failed read or parse is raised.
loadState_Uncaught(obj, getThrows) ==
    IF getThrows THEN [raised |-> TRUE, state |-> createEmptyState]
    ELSE IF obj = Null THEN [raised |-> FALSE, state |-> createEmptyState]
    ELSE IF Get(obj).valid THEN [raised |-> FALSE, state |-> Get(obj).value]
    ELSE [raised |-> TRUE, state |-> createEmptyState]

\* loadState on the bucket's object; getThrows: bucket.get or obj.text throws.
\* Its value is the state it returns, and whether it raised instead.
loadState(obj, getThrows) ==
    IF getThrows THEN [raised |-> FALSE, state |-> createEmptyState]
    ELSE IF obj = Null THEN [raised |-> FALSE, state |-> createEmptyState]
    ELSE IF Get(obj).valid THEN [raised |-> FALSE, state |-> Get(obj).value]
    ELSE [raised |-> FALSE, state |-> createEmptyState]

\* Only lastRun written, the check states left out.
saveState_ChecksDropped(state) == Some(JSONstringify([state EXCEPT !.checks = EmptyChecks]))

\* The text saveState puts under STATE_KEY.
saveState(state) == Some(JSONstringify(state))

\* A put that keeps, check by check, the entry evaluated last.
put_NewestKept(obj, text) ==
    IF obj = Null \/ ~Get(obj).valid THEN text
    ELSE LET old == Get(obj).value.checks
             new == Get(text).value.checks
             newer(id) == id \in DOMAIN old
                          /\ (id \notin DOMAIN new
                              \/ Get(old[id].lastCheck) > Get(new[id].lastCheck))
         IN Some([Get(text) EXCEPT !.value.checks =
                     [id \in DOMAIN old \cup DOMAIN new |->
                         IF newer(id) THEN old[id] ELSE new[id]]])

\* bucket.put(STATE_KEY, text): the object is replaced by the text.
put(obj, text) == text

\* The failure of the put caught and dropped.
settlementOf_Swallowed(putThrows) == "resolved"

\* await saveState(bucket, state) stands outside any try: how the promise of
\* runMonitoringChecks settles.
settlementOf(putThrows) == IF putThrows THEN "rejected" ELSE "resolved"

\* The run going on without the bucket binding.
hasBucket_Unchecked(e) == TRUE

\* const bucket = env.MOLTBOT_BUCKET; if (!bucket) return
hasBucket(e) == e.MOLTBOT_BUCKET

\* ------------------------------------------------------------- environment
\* The bindings and secrets of a deployment (TRUE: set).
Envs ==
    { [MOLTBOT_BUCKET |-> bucket, SLACK_WEBHOOK_URL |-> FALSE,
       TELEGRAM_BOT_TOKEN |-> telegram, MONITORING_TELEGRAM_CHAT_ID |-> telegram,
       RESEND_API_KEY |-> FALSE, RESEND_FROM_EMAIL |-> FALSE,
       MONITORING_EMAIL_TO |-> FALSE] : bucket \in BOOLEAN, telegram \in BOOLEAN }

\* The persisted state after n runs in which every probe answered 200 in
\* 100 ms, the last of them at time 0 (n <= HistoryLimit: nothing trimmed).
afterHealthyRuns(config, n) ==
    LET ids == {config.checks[k].id : k \in 1..Len(config.checks)}
    IN [checks |-> [id \in ids |->
                      [id |-> id, status |-> "healthy", consecutiveFailures |-> 0,
                       lastCheck |-> Some(0), lastSuccess |-> Some(0),
                       lastError |-> Null, responseTimeMs |-> Some(100),
                       history |-> [k \in 1..n |->
                                      [timestamp |-> k - n, status |-> "healthy",
                                       responseTimeMs |-> 100, error |-> Null]]]],
        lastRun |-> Some(0)]

\* A state whose every history is full.
fullHistoryState(config) == afterHealthyRuns(config, HistoryLimit)

\* The state a whole run at time t leaves from state st when every probe
\* has the outcome of the given kind.
RECURSIVE runOver(_, _, _, _, _)
runOver(st, config, k, status, t) ==
    IF k > Len(config.checks) THEN [st EXCEPT !.lastRun = Some(t)]
    ELSE LET check == config.checks[k]
             outcome == CHOOSE o \in FetchOutcomes(timeoutOf(config, check)) :
                            o.kind = "response" /\ o.status = status
         IN runOver(evaluate(st, config, check, outcome, t).state,
                    config, k + 1, status, t)

\* The clock of a deployment that has runs for n more rounds of probes.
clockBefore(config, n) == (MaxProbes \div Len(config.checks)) - n

\* What may fail in a deployment's surroundings: nothing.
NoFaults == [sends |-> FALSE, storage |-> FALSE]

\* ----------------------------------------------------------------- state
VARIABLES
    config,      \* monitoringConfig of the deployment
    env,         \* the deployment's bindings and secrets
    bucketObj,   \* the R2 object monitoring/state.json: Null, or its text
    now,         \* the clock: the number of scheduled runs started
    pc,          \* where the run is: idle, probe, dispatch, await, save
    state,       \* the run's MonitoringState
    i,           \* index of the check the loop is at
    result,      \* the loop's CheckResult
    alertType,   \* the loop's alert intent
    dispatched,  \* payloads dispatchAlerts was called with, in order
    sent,        \* sends started to channels, in order
    ct,          \* computeTransition on its own: arguments and value
    tasks,       \* the promises of the latest dispatchAlerts call
    calls,       \* the dispatchAlerts calls that settled, in order
    returned,    \* how each call of runMonitoringChecks settled, in order
    loadFailed,  \* the run's loadState fell back to the empty state
    faulty,      \* what may fail in the surroundings: sends, storage
    windows,     \* the rows of maintenance_windows
    scr,         \* shouldChannelReceive on its own: arguments and value
    rc,          \* runCheck on its own: arguments, attempts made and value
    track,       \* one check followed through its evaluations
    pw,          \* the price rules on their own: arguments and value
    ar,          \* the alert rules on their own: arguments and value
    ov           \* runs that overlap: each run's locals, and the order of events

vars == <<config, env, bucketObj, now, pc, state, i, result, alertType,
          dispatched, sent, ct, tasks, calls, returned, loadFailed, faulty,
          windows, scr, rc, track, pw, ar, ov>>

runVars == <<config, env, bucketObj, now, pc, state, i, result, alertType,
             dispatched, sent, tasks, calls, returned, loadFailed, faulty,
             windows>>

NoCall == [state |-> createEmptyCheckState("test"),
           result |-> runCheck(CampermateWebsite,
                               CHOOSE o \in FetchOutcomes(DefaultTimeoutMs) :
                                   o.kind = "response" /\ o.status = 200,
                               DefaultTimeoutMs),
           threshold |-> 0, now |-> 0, out |-> Null]

NoReceiveCall == [channel |-> Channels[1], check |-> CampermateWebsite, out |-> Null]

NoRunCheckCall ==
    [check |-> CampermateWebsite, timeoutMs |-> DefaultTimeoutMs, retryCount |-> 0,
     attempts |-> <<>>, made |-> 0, out |-> Null]

NoTrack ==
    [state |-> createEmptyCheckState("test"), threshold |-> 0, now |-> 0,
     result |-> Null, alerts |-> <<>>, incidents |-> <<>>, successes |-> <<>>]

NoPriceCall ==
    [tracker |-> [alert_below |-> Null, alert_above |-> Null,
                  alert_pct_drop |-> Null, alert_pct_rise |-> Null],
     baseline |-> 0, price |-> 0, out |-> Null]

NoRuleCall == [rules |-> {}, alertType |-> "failure", check |-> "", group |-> Null,
               out |-> Null]

NoOverlap == [runs |-> <<>>, events |-> <<>>]

\* The functions followed on their own in other specifications: not called.
Uncalled ==
    /\ rc = NoRunCheckCall
    /\ track = NoTrack
    /\ pw = NoPriceCall
    /\ ar = NoRuleCall
    /\ ov = NoOverlap

\* A run has not begun: the locals of runMonitoringChecks and the logs.
Idle ==
    /\ pc = "idle"
    /\ state = createEmptyState
    /\ i = 0
    /\ result = Null
    /\ alertType = Null
    /\ dispatched = <<>>
    /\ sent = <<>>
    /\ tasks = <<>>
    /\ calls = <<>>
    /\ returned = <<>>
    /\ loadFailed = FALSE

Init ==
    /\ \E checks \in CheckLists, threshold \in 1..MaxThreshold :
           config = monitoringConfig(checks, threshold)
    /\ env \in Envs
    /\ bucketObj \in {Null, saveState(fullHistoryState(config))}
    /\ now = 0
    /\ Idle
    /\ faulty = NoFaults
    /\ windows = {}
    /\ ct = NoCall
    /\ scr = NoReceiveCall
    /\ Uncalled

\* The scheduled handler calls runMonitoringChecks: without the bucket it
\* returns at once, else it loads the state and enters the loop.
StartRun ==
    /\ pc = "idle"
    /\ (now + 1) * Len(config.checks) <= MaxProbes
    /\ now' = now + 1
    /\ IF ~hasBucket(env)
       THEN /\ returned' = Append(returned, "resolved")
            /\ UNCHANGED <<pc, state, i, loadFailed>>
       ELSE \E getThrows \in IF faulty.storage THEN BOOLEAN ELSE {FALSE} :
              LET loaded == loadState(bucketObj, getThrows)
              IN IF loaded.raised
                 THEN /\ returned' = Append(returned, "rejected")
                      /\ UNCHANGED <<pc, state, i, loadFailed>>
                 ELSE /\ state' = loaded.state
                      /\ loadFailed' = (getThrows \/ bucketObj = Null
                                        \/ ~Get(bucketObj).valid)
                      /\ i' = 1
                      /\ pc' = IF Len(config.checks) = 0 THEN "save" ELSE "probe"
                      /\ UNCHANGED returned
    /\ UNCHANGED <<config, env, bucketObj, result, alertType, dispatched, sent,
                   ct, tasks, calls, faulty, windows, scr,
                   rc, track, pw, ar, ov>>

\* The loop breaking off after a check that failed.
Advance_StopsOnFailure ==
    IF i < Len(config.checks) /\ Get(result').success
    THEN i' = i + 1 /\ pc' = "probe"
    ELSE i' = i /\ pc' = "save"

\* The loop moves to the next check, or leaves for the save.
Advance ==
    IF i < Len(config.checks)
    THEN i' = i + 1 /\ pc' = "probe"
    ELSE i' = i /\ pc' = "save"

\* The probe of check i settles; the transition, the history entry and the
\* assignment into the state follow at once.
Evaluate ==
    /\ pc = "probe"
    /\ LET check == config.checks[i]
       IN \E outcome \in FetchOutcomes(timeoutOf(config, check)) :
             LET ev == evaluate(state, config, check, outcome, now)
             IN /\ state' = ev.state
                /\ result' = Some(ev.result)
                /\ alertType' = ev.alertType
                /\ IF ev.alertType # Null
                   THEN pc' = "dispatch" /\ i' = i
                   ELSE Advance
    /\ UNCHANGED <<config, env, bucketObj, now, dispatched, sent, ct, tasks,
                   calls, returned, loadFailed, faulty, windows, scr,
                   rc, track, pw, ar, ov>>

\* dispatchAlerts for check i: the payload is built and every send is started.
Dispatch ==
    /\ pc = "dispatch"
    /\ LET check == config.checks[i]
           payload == alertPayload(Get(alertType), check, state.checks[check.id],
                                   Get(result), now)
           started == alertTasks(config.channels, check, env, payload)
       IN /\ dispatched' = Append(dispatched, payload)
          /\ sent' = sent \o started
          /\ tasks' = startTasks(started)
    /\ pc' = "await"
    /\ UNCHANGED <<config, env, bucketObj, now, state, i, result, alertType, ct,
                   calls, returned, loadFailed, faulty, windows, scr,
                   rc, track, pw, ar, ov>>

\* A send in flight settles.
Settle ==
    /\ \E k \in 1..Len(tasks) :
          /\ tasks[k].outcome = "pending"
          /\ \E outcome \in IF faulty.sends THEN SendOutcomes ELSE {"sent"} :
                tasks' = [tasks EXCEPT ![k].outcome = outcome]
    /\ UNCHANGED <<config, env, bucketObj, now, pc, state, i, result, alertType,
                   dispatched, sent, ct, calls, returned, loadFailed, faulty,
                   windows, scr,
                   rc, track, pw, ar, ov>>

\* await Promise.all(tasks) is over and dispatchAlerts settles; the run's
\* try/catch logs a rejection, and the loop goes on either way.
Join ==
    /\ pc = "await"
    /\ PromiseAll(tasks) # "pending"
    /\ calls' = Append(calls, [payload |-> Last(dispatched), tasks |-> tasks,
                               settled |-> PromiseAll(tasks)])
    /\ UNCHANGED <<config, env, bucketObj, now, state, result, alertType,
                   dispatched, sent, ct, tasks, returned, loadFailed, faulty,
                   windows, scr,
                   rc, track, pw, ar, ov>>
    /\ Advance

\* The locals of a run that is over.
Leave ==
    /\ pc' = "idle"
    /\ state' = createEmptyState
    /\ i' = 0
    /\ result' = Null
    /\ alertType' = Null
    /\ tasks' = <<>>
    /\ loadFailed' = FALSE

\* state.lastRun is set and the whole state is put; the run returns, or
\* throws what the put threw.
Save ==
    /\ pc = "save"
    /\ \E putThrows \in IF faulty.storage THEN BOOLEAN ELSE {FALSE} :
          /\ bucketObj' = IF putThrows THEN bucketObj
                          ELSE put(bucketObj, saveState([state EXCEPT !.lastRun = Some(now)]))
          /\ returned' = Append(returned, settlementOf(putThrows))
    /\ Leave
    /\ UNCHANGED <<config, env, now, dispatched, sent, ct, calls, faulty,
                   windows, scr,
                   rc, track, pw, ar, ov>>

Next == StartRun \/ Evaluate \/ Dispatch \/ Settle \/ Join \/ Save

Spec == Init /\ [][Next]_vars

\* ------------------------------------------- computeTransition on its own
\* Prior states, results and thresholds computeTransition is applied to.
PriorStates ==
    { [createEmptyCheckState("test") EXCEPT
           !.status = status, !.consecutiveFailures = failures,
           !.lastError = lastError] :
        status \in Statuses, failures \in 0..MaxFailures,
        lastError \in {Null, Some(ErrMessage("previous error"))} }

Results ==
    { runCheck(CampermateWebsite, o, DefaultTimeoutMs) :
        o \in FetchOutcomes(DefaultTimeoutMs) }

\* A deployment that is not run: no bucket, no secret.
NotRun ==
    /\ config = monitoringConfig(<<CampermateWebsite>>, 1)
    /\ env \in {e \in Envs : ~e.MOLTBOT_BUCKET /\ ~e.TELEGRAM_BOT_TOKEN}
    /\ bucketObj = Null
    /\ now = 0
    /\ Idle
    /\ faulty = NoFaults
    /\ windows = {}

InitCT ==
    /\ NotRun
    /\ scr = NoReceiveCall
    /\ Uncalled
    /\ \E s \in PriorStates, r \in Results, threshold \in 1..MaxThreshold :
           ct = [state |-> s, result |-> r, threshold |-> threshold,
                 now |-> 1, out |-> Null]

Call ==
    /\ ct.out = Null
    /\ ct' = [ct EXCEPT !.out =
                 Some(computeTransition(ct.state, ct.result, ct.threshold, ct.now))]
    /\ UNCHANGED runVars
    /\ UNCHANGED <<scr, rc, track, pw, ar, ov>>

NextCT == Call

SpecCT == InitCT /\ [][NextCT]_vars

\* ----------------------------------------- shouldChannelReceive on its own
\* The tags a channel or a check carries: none, an empty list, or a list of
\* up to MaxTags of these.
TagNames == {"production", "infrastructure", "staging"}

TagLists ==
    {Null} \cup {Some(tags) : tags \in UNION {[1..n -> TagNames] : n \in 0..MaxTags}}

InitSCR ==
    /\ NotRun
    /\ ct = NoCall
    /\ Uncalled
    /\ \E enabled \in BOOLEAN, channelTags \in TagLists, checkTags \in TagLists :
           scr = [channel |-> [type |-> "telegram", enabled |-> enabled,
                               tags |-> channelTags],
                  check |-> [CampermateWebsite EXCEPT !.tags = checkTags],
                  out |-> Null]

CallSCR ==
    /\ scr.out = Null
    /\ scr' = [scr EXCEPT !.out = Some(shouldChannelReceive(scr.channel, scr.check))]
    /\ UNCHANGED runVars
    /\ UNCHANGED <<ct, rc, track, pw, ar, ov>>

NextSCR == CallSCR

SpecSCR == InitSCR /\ [][NextSCR]_vars

\* ======================================================== the properties
\* computeTransition has been applied; its value.
Called == ct.out # Null
Out == Get(ct.out)

\* C1: on a successful probe computeTransition yields status healthy and
\* consecutiveFailures 0 for every prior state and threshold, and the alert is
\* recovery exactly when the prior status was unhealthy, else there is none.
C1_SuccessYieldsHealthy ==
    (Called /\ ct.result.success) =>
        /\ Out.newState.status = "healthy"
        /\ Out.newState.consecutiveFailures = 0
        /\ (Out.alertType = Some("recovery")) <=> (ct.state.status = "unhealthy")
        /\ (ct.state.status # "unhealthy") => (Out.alertType = Null)

C1_Witness ==
    /\ Called /\ ct.result.success
    /\ ct.state.status = "unhealthy" /\ ct.state.consecutiveFailures > 0
    /\ Out.alertType = Some("recovery")

\* C2: on a failed probe consecutiveFailures grows by exactly 1; when the new
\* count reaches the threshold the status is unhealthy and the alert is
\* failure exactly when the prior status was not unhealthy, else there is none.
C2_FailureAtThreshold ==
    (Called /\ ~ct.result.success) =>
        /\ Out.newState.consecutiveFailures = ct.state.consecutiveFailures + 1
        /\ (Out.newState.consecutiveFailures >= ct.threshold) =>
              /\ Out.newState.status = "unhealthy"
              /\ (Out.alertType = Some("failure")) <=> (ct.state.status # "unhealthy")
              /\ (ct.state.status = "unhealthy") => (Out.alertType = Null)

C2_Witness ==
    /\ Called /\ ~ct.result.success
    /\ ct.state.status = "degraded"
    /\ ct.state.consecutiveFailures + 1 = ct.threshold
    /\ Out.newState.status = "unhealthy"
    /\ Out.alertType = Some("failure")

\* C3: on a failed probe whose new count is below the threshold the status is
\* degraded and there is no alert, whatever the prior status was.
C3_FailureBelowThreshold ==
    (Called /\ ~ct.result.success
        /\ ct.state.consecutiveFailures + 1 < ct.threshold) =>
        /\ Out.newState.status = "degraded"
        /\ Out.alertType = Null

C3_Witness ==
    /\ Called /\ ~ct.result.success
    /\ ct.state.status = "unhealthy"
    /\ ct.state.consecutiveFailures + 1 < ct.threshold
    /\ Out.newState.status = "degraded"
    /\ Out.alertType = Null

\* C10: a successful evaluation leaves lastError as it was; a failed one sets
\* it to the error of that probe.
C10_LastErrorKeptOnSuccess ==
    Called =>
        /\ ct.result.success => (Out.newState.lastError = ct.state.lastError)
        /\ ~ct.result.success =>
              (Out.newState.lastError = ct.result.error /\ ct.result.error # Null)

C10_Witness ==
    /\ Called /\ ct.result.success
    /\ ct.state.status = "unhealthy"
    /\ ct.state.lastError = Some(ErrMessage("previous error"))
    /\ Out.newState.lastError = Some(ErrMessage("previous error"))

\* The check states the persisted object holds.
StoredChecks == IF bucketObj = Null THEN EmptyChecks ELSE Get(bucketObj).value.checks

\* Every check state there is: the run's and the persisted ones.
AllCheckStates ==
    {state.checks[id] : id \in DOMAIN state.checks}
        \cup {StoredChecks[id] : id \in DOMAIN StoredChecks}

\* The check the loop is at, its state in the run's state, the loop's result.
Cur == config.checks[i]
Post == state.checks[Cur.id]
Res == Get(result)

\* The failure threshold a check is configured with.
Threshold(check) ==
    IF check.failureThreshold # Null THEN Get(check.failureThreshold)
    ELSE config.defaultFailureThreshold

\* The step is an evaluation of Cur: from the state Prior to the state
\* NewState, with the result NewResult.
Evaluated == pc = "probe" /\ state' # state
Prior == checkStateOf(state, Cur.id)
NewState == state'.checks[Cur.id]
NewResult == Get(result')

\* C4: every check whose status is healthy has consecutiveFailures 0.
C4_HealthyHasNoFailures ==
    \A cs \in AllCheckStates :
        cs.status = "healthy" => cs.consecutiveFailures = 0

\* A healthy check that failed before.
C4_Witness ==
    \E cs \in AllCheckStates :
        /\ cs.status = "healthy" /\ cs.consecutiveFailures = 0
        /\ \E k \in 1..Len(cs.history) : cs.history[k].status = "unhealthy"

\* The alert types dispatched for a check at a time, in order.
AlertsAt(id, time) ==
    LET hit == SelectSeq(dispatched, LAMBDA a : a.check = id /\ a.timestamp = time)
    IN [k \in 1..Len(hit) |-> hit[k].type]

\* A check whose stored history starts at its creation with the outcomes
\* fail, fail, fail, succeed, as far as it goes (n entries, n <= 4).
FailFailFailSucceed(cs, n) ==
    /\ Len(cs.history) >= n
    /\ \A k \in 1..n :
          /\ cs.history[k].timestamp = k
          /\ (cs.history[k].error = Null) <=> (k = 4)

ScenarioStatus == <<"degraded", "unhealthy", "unhealthy", "healthy">>
ScenarioAlerts == << <<>>, <<"failure">>, <<>>, <<"recovery">> >>
ScenarioFailures == <<1, 2, 3, 0>>

\* C5: with threshold 2, a check that starts unknown and is run four times
\* with the outcomes fail, fail, fail, succeed, each run loading what the run
\* before saved, goes degraded without alert, unhealthy with a failure alert,
\* unhealthy without alert, healthy with a recovery alert and 0 failures.
C5_EndToEndScenario ==
    \A k \in 1..Len(config.checks) :
        LET check == config.checks[k]
        IN (Threshold(check) = 2 /\ check.id \in DOMAIN StoredChecks) =>
              LET cs == StoredChecks[check.id]
              IN \A n \in 1..4 :
                    FailFailFailSucceed(cs, n) =>
                        /\ cs.history[n].status = ScenarioStatus[n]
                        /\ AlertsAt(check.id, n) = ScenarioAlerts[n]
                        /\ Len(cs.history) = n =>
                              /\ cs.status = ScenarioStatus[n]
                              /\ cs.consecutiveFailures = ScenarioFailures[n]

C5_Witness ==
    /\ pc = "idle"
    /\ Threshold(CampermateWebsite) = 2
    /\ CampermateWebsite.id \in DOMAIN StoredChecks
    /\ LET cs == StoredChecks[CampermateWebsite.id]
       IN /\ Len(cs.history) = 4
          /\ FailFailFailSucceed(cs, 4)
          /\ cs.status = "healthy"
          /\ [k \in 1..Len(dispatched) |-> dispatched[k].type] = <<"failure", "recovery">>

\* C6: with threshold 1 the first failed probe of a check in status unknown
\* takes it to unhealthy, not degraded, with consecutiveFailures 1 and a
\* failure alert.
C6_ThresholdOneStraightToUnhealthy ==
    [][(Evaluated /\ Threshold(Cur) = 1
            /\ Prior.status = "unknown" /\ ~NewResult.success) =>
          /\ NewState.status = "unhealthy"
          /\ NewState.consecutiveFailures = 1
          /\ alertType' = Some("failure")
          /\ pc' = "dispatch"]_vars

C6_Witness ==
    /\ pc = "dispatch"
    /\ Threshold(Cur) = 1
    /\ Len(Post.history) = 1
    /\ Post.status = "unhealthy" /\ Post.consecutiveFailures = 1
    /\ alertType = Some("failure")

\* The eight transitions the state machine is documented with.
ListedTransitions ==
    { <<"unknown", "healthy">>, <<"unknown", "degraded">>,
      <<"healthy", "degraded">>, <<"degraded", "unhealthy">>,
      <<"unhealthy", "healthy">>, <<"unhealthy", "unhealthy">>,
      <<"healthy", "healthy">>, <<"degraded", "healthy">> }

\* C7 as stated: every evaluation takes a check along one of the eight
\* listed transitions, for any threshold.
C7_OnlyListedTransitions ==
    [][Evaluated => <<Prior.status, NewState.status>> \in ListedTransitions]_vars

\* C7 amended: every evaluation takes a check along one of the eight listed
\* transitions, or with threshold 1 along unknown -> unhealthy or healthy ->
\* unhealthy, or with a threshold of 3 or more along degraded -> degraded.
C7_TransitionsByThreshold ==
    [][Evaluated =>
          LET pair == <<Prior.status, NewState.status>>
              threshold == Threshold(Cur)
          IN \/ pair \in ListedTransitions
             \/ /\ threshold = 1
                /\ pair \in {<<"unknown", "unhealthy">>, <<"healthy", "unhealthy">>}
             \/ /\ threshold >= 3
                /\ pair = <<"degraded", "degraded">>]_vars

\* A check created in run 1 that went from degraded to degraded in run 2.
C7_Witness ==
    \E cs \in AllCheckStates :
        /\ Len(cs.history) = 2
        /\ cs.history[1].status = "degraded" /\ cs.history[2].status = "degraded"
        /\ cs.history[1].timestamp = 1

HistoryWithinLimit(cs) == Len(cs.history) <= HistoryLimit

\* C8: no history ever holds more than 288 entries, and an evaluation of a
\* check whose history holds 288 drops exactly the oldest entry, keeps the
\* other 287 in order and puts the new entry last.
C8_HistoryBounded ==
    /\ \A cs \in AllCheckStates : HistoryWithinLimit(cs)
    /\ [][/\ \A cs \in AllCheckStates' : HistoryWithinLimit(cs)
          /\ (Evaluated /\ Len(Prior.history) = HistoryLimit) =>
                /\ Len(NewState.history) = HistoryLimit
                /\ \A k \in 1..(HistoryLimit - 1) :
                       NewState.history[k] = Prior.history[k + 1]
                /\ NewState.history[HistoryLimit].timestamp = now
                /\ NewState.history[HistoryLimit].status = NewState.status]_vars

\* A full history that has dropped its oldest entry for the one of run 1.
C8_Witness ==
    \E cs \in AllCheckStates :
        /\ Len(cs.history) = HistoryLimit
        /\ cs.history[HistoryLimit].timestamp = 1
        /\ cs.history[1].timestamp = 2 - HistoryLimit

LastEntryIsStatus(cs) ==
    cs.history # <<>> => Last(cs.history).status = cs.status

\* C9: every evaluation appends exactly one history entry to the history of
\* the check it evaluates (and none to another), with the resulting status
\* and the error of the probe, null on success; so the last entry of every
\* history carries the check's current status.
C9_OneEntryPerEvaluation ==
    /\ \A cs \in AllCheckStates : LastEntryIsStatus(cs)
    /\ [][/\ \A cs \in AllCheckStates' : LastEntryIsStatus(cs)
          /\ Evaluated =>
                LET entry == Last(NewState.history)
                    kept == IF Len(Prior.history) < HistoryLimit
                            THEN Prior.history ELSE Tail(Prior.history)
                IN /\ NewState.history = Append(kept, entry)
                   /\ entry.status = NewState.status
                   /\ entry.error = NewResult.error
                   /\ NewResult.success <=> (entry.error = Null)
                   /\ entry.timestamp = now
                   /\ \A id \in DOMAIN state.checks \ {Cur.id} :
                          state'.checks[id] = state.checks[id]]_vars

\* A history whose newest entry is the failed evaluation of this run.
C9_Witness ==
    /\ pc = "dispatch"
    /\ Post.status = "unhealthy"
    /\ Len(Post.history) >= 2
    /\ Last(Post.history).status = "unhealthy"
    /\ Last(Post.history).error = Res.error
    /\ Res.error = Some(ErrExpectedStatus(200, 503))
    /\ Last(Post.history).timestamp = now

\* ------------------------------------------ shouldChannelReceive, called
ReceiveCalled == scr.out # Null
Receives == Get(scr.out)

\* The set of tags of an optional tag list.
TagSet(tags) == IF tags = Null THEN {} ELSE {Get(tags)[k] : k \in 1..Len(Get(tags))}

\* C11: an enabled channel without tags (absent or empty list) receives the
\* alert of every check; an enabled channel with tags receives a check's
\* alert exactly when the two tag sets share a tag, so never that of a check
\* without tags.
C11_EnabledChannelTagMatch ==
    (ReceiveCalled /\ scr.channel.enabled) =>
        /\ (TagSet(scr.channel.tags) = {}) => Receives
        /\ (TagSet(scr.channel.tags) # {}) =>
              (Receives <=> (TagSet(scr.channel.tags) \cap TagSet(scr.check.tags) # {}))
        /\ (TagSet(scr.channel.tags) # {} /\ TagSet(scr.check.tags) = {}) => ~Receives

\* Two tags on either side, one of them shared.
C11_Witness ==
    /\ ReceiveCalled /\ scr.channel.enabled /\ Receives
    /\ Cardinality(TagSet(scr.channel.tags)) = 2
    /\ Cardinality(TagSet(scr.check.tags)) = 2
    /\ Cardinality(TagSet(scr.channel.tags) \cap TagSet(scr.check.tags)) = 1

\* ------------------------------------------------- one run and its alerts
\* Channel lists of a deployment: every channel on and untagged; a tagged and
\* an untagged channel on; a tagged channel off, two on of which one carries
\* an empty tag list; the configured one.
ChannelSets ==
    { << [type |-> "slack", enabled |-> TRUE, tags |-> Null],
         [type |-> "telegram", enabled |-> TRUE, tags |-> Null],
         [type |-> "email", enabled |-> TRUE, tags |-> Null] >>,
      << [type |-> "slack", enabled |-> TRUE, tags |-> Some(<<"production">>)],
         [type |-> "telegram", enabled |-> TRUE, tags |-> Null],
         [type |-> "email", enabled |-> FALSE, tags |-> Null] >>,
      << [type |-> "slack", enabled |-> FALSE, tags |-> Some(<<"production">>)],
         [type |-> "telegram", enabled |-> TRUE,
          tags |-> Some(<<"infrastructure", "staging">>)],
         [type |-> "email", enabled |-> TRUE, tags |-> Some(<<>>)] >>,
      Channels }

\* The bucket bound; every channel's secrets set, or all but telegram's.
AlertEnvs ==
    { [MOLTBOT_BUCKET |-> TRUE, SLACK_WEBHOOK_URL |-> TRUE,
       TELEGRAM_BOT_TOKEN |-> telegram, MONITORING_TELEGRAM_CHAT_ID |-> telegram,
       RESEND_API_KEY |-> TRUE, RESEND_FROM_EMAIL |-> TRUE,
       MONITORING_EMAIL_TO |-> TRUE] : telegram \in BOOLEAN }

\* Both checks, the second with or without its tags.
AlertCheckLists ==
    { <<CampermateWebsite, SandboxHealth>>,
      <<CampermateWebsite, [SandboxHealth EXCEPT !.tags = Null]>> }

\* A deployment with threshold 1 before its last run: nothing persisted yet,
\* or the state of a run in which every probe answered 503. Sends may fail.
InitAlerts ==
    /\ \E checks \in AlertCheckLists, channels \in ChannelSets :
           config = [monitoringConfig(checks, 1) EXCEPT !.channels = channels]
    /\ env \in AlertEnvs
    /\ now = clockBefore(config, 1)
    /\ bucketObj \in {Null, saveState(runOver(createEmptyState, config, 1, 503, now))}
    /\ Idle
    /\ faulty = [sends |-> TRUE, storage |-> FALSE]
    /\ windows = {}
    /\ ct = NoCall
    /\ scr = NoReceiveCall
    /\ Uncalled

SpecAlerts == InitAlerts /\ [][Next]_vars

\* The configured channel of a type (a type is configured once).
ChannelOf(type) ==
    CHOOSE c \in {config.channels[k] : k \in 1..Len(config.channels)} : c.type = type

CheckOf(id) ==
    CHOOSE c \in {config.checks[k] : k \in 1..Len(config.checks)} : c.id = id

\* The channel is on and its tags let the check's alerts through.
Matched(channel, check) ==
    /\ channel.enabled
    /\ \/ TagSet(channel.tags) = {}
       \/ TagSet(channel.tags) \cap TagSet(check.tags) # {}

\* The types of the channels an alert of the check is to be sent to, in
\* configuration order.
Recipients(check) ==
    LET idx == {k \in 1..Len(config.channels) :
                   /\ Matched(config.channels[k], check)
                   /\ hasCredentials(config.channels[k].type, env)}
        RECURSIVE Asc(_)
        Asc(K) == IF K = {} THEN <<>>
                  ELSE LET k == CHOOSE x \in K : \A y \in K : x <= y
                       IN <<config.channels[k].type>> \o Asc(K \ {k})
    IN Asc(idx)

TaskChannels(ts) == [k \in 1..Len(ts) |-> ts[k].channel]

\* C12: a channel whose enabled flag is false is sent no alert, of whatever
\* type and for whatever check, whatever its tags and the check's tags are.
C12_DisabledChannelReceivesNothing ==
    /\ \A k \in 1..Len(sent) : ChannelOf(sent[k].channel).enabled
    /\ \A k \in 1..Len(tasks) : ChannelOf(tasks[k].channel).enabled
    /\ \A c \in 1..Len(calls) : \A k \in 1..Len(calls[c].tasks) :
           ChannelOf(calls[c].tasks[k].channel).enabled

\* A recovery alert of a check tagged production went out while the slack
\* channel, tagged production and with its webhook set, is disabled.
C12_Witness ==
    /\ ~ChannelOf("slack").enabled
    /\ ChannelOf("slack").tags = Some(<<"production">>)
    /\ env.SLACK_WEBHOOK_URL
    /\ \E c \in 1..Len(calls) :
          /\ calls[c].payload.type = "recovery"
          /\ calls[c].payload.check = "campermate-website"
          /\ "production" \in TagSet(CheckOf(calls[c].payload.check).tags)
          /\ Len(calls[c].tasks) = 1

\* C13: every dispatchAlerts call starts a send to every matched channel
\* whichever of the sends fail, settles without error once each of them has
\* settled, and no run fails on a failed send.
C13_SendFailuresIsolated ==
    /\ (pc = "await") =>
          TaskChannels(tasks) = Recipients(CheckOf(Last(dispatched).check))
    /\ \A c \in 1..Len(calls) :
          /\ calls[c].settled = "fulfilled"
          /\ TaskChannels(calls[c].tasks) = Recipients(CheckOf(calls[c].payload.check))
          /\ \A k \in 1..Len(calls[c].tasks) :
                calls[c].tasks[k].outcome \in SendOutcomes
    /\ \A r \in 1..Len(returned) : returned[r] = "resolved"
    /\ Len(calls) <= Len(dispatched)
    /\ (pc \in {"idle", "probe", "dispatch", "save"}) => Len(calls) = Len(dispatched)

\* Of three sends the first and the last failed and the second went through;
\* the run went on to its end.
C13_Witness ==
    /\ returned = <<"resolved">>
    /\ \E c \in 1..Len(calls) :
          /\ Len(calls[c].tasks) = 3
          /\ calls[c].tasks[1].outcome = "failed"
          /\ calls[c].tasks[2].outcome = "sent"
          /\ calls[c].tasks[3].outcome = "failed"
          /\ calls[c].settled = "fulfilled"

\* Check k has been evaluated in the run under way.
EvaluatedInRun(k) ==
    LET id == config.checks[k].id
    IN id \in DOMAIN state.checks /\ state.checks[id].lastCheck = Some(now)

\* C14: within a run the checks are evaluated one after another in
\* configuration order: while check i is probed, evaluated or its alert is
\* being sent, the checks before it have been evaluated and none after it has,
\* and no send is in flight when a probe starts or the state is saved.
C14_ChecksInSequence ==
    /\ (\E k \in 1..Len(tasks) : tasks[k].outcome = "pending") => pc = "await"
    /\ (pc \in {"probe", "dispatch", "await"}) =>
          \A k \in 1..Len(config.checks) :
             EvaluatedInRun(k) <=> (k < i \/ (k = i /\ pc # "probe"))
    /\ (pc = "probe") => Len(calls) = Len(dispatched)
    /\ (pc = "await") => /\ Len(dispatched) = Len(calls) + 1
                         /\ Last(dispatched).check = config.checks[i].id

\* The second check is about to be probed after the three sends of the first
\* check's alert have settled, one of them failed.
C14_Witness ==
    /\ pc = "probe" /\ i = 2
    /\ Len(calls) = 1
    /\ calls[1].payload.check = config.checks[1].id
    /\ Len(calls[1].tasks) = 3
    /\ calls[1].tasks[2].outcome = "failed"
    /\ ~EvaluatedInRun(2)

\* The history entries of a check state stamped with time t.
EntriesAt(cs, t) == {k \in 1..Len(cs.history) : cs.history[k].timestamp = t}

\* C18: a run that has left its loop has evaluated every configured check
\* exactly once, whatever failed on the way: each check state carries the
\* run's time and exactly one history entry of the run.
C18_EveryCheckEvaluatedOnce ==
    (pc = "save") =>
        \A k \in 1..Len(config.checks) :
           /\ EvaluatedInRun(k)
           /\ Cardinality(EntriesAt(state.checks[config.checks[k].id], now)) = 1

\* The first check's probe timed out and every send of its alert failed; the
\* second check was probed and found healthy.
C18_Witness ==
    /\ pc = "save"
    /\ Len(config.checks) = 2
    /\ state.checks[config.checks[1].id].status = "unhealthy"
    /\ state.checks[config.checks[1].id].lastError = Some(ErrTimeout(DefaultTimeoutMs))
    /\ Len(calls) = 1
    /\ Len(calls[1].tasks) = 3
    /\ \A k \in 1..3 : calls[1].tasks[k].outcome = "failed"
    /\ state.checks[config.checks[2].id].status = "healthy"
    /\ state.checks[config.checks[2].id].lastCheck = Some(now)

\* ------------------------------------------- runs over a failing bucket
\* The text of a state cut short: no JSON.
corruptText(st) == Some([valid |-> FALSE, value |-> st])

\* A deployment before its last two runs whose bucket reads and writes may
\* fail: nothing persisted, the state of a run in which every probe answered
\* 503, or that state's text cut short.
InitStorage ==
    /\ \E threshold \in 1..2 :
           config = monitoringConfig(<<CampermateWebsite, SandboxHealth>>, threshold)
    /\ env \in {e \in Envs : e.MOLTBOT_BUCKET /\ e.TELEGRAM_BOT_TOKEN}
    /\ now = clockBefore(config, 2)
    /\ LET failed == runOver(createEmptyState, config, 1, 503, now)
       IN bucketObj \in {Null, saveState(failed), corruptText(failed)}
    /\ Idle
    /\ faulty = [sends |-> FALSE, storage |-> TRUE]
    /\ windows = {}
    /\ ct = NoCall
    /\ scr = NoReceiveCall
    /\ Uncalled

\* The run stops where it is: the worker is evicted or exceeds its limits.
\* Nothing of it is left but what it has sent.
Stop ==
    /\ pc # "idle"
    /\ Leave
    /\ UNCHANGED <<config, env, bucketObj, now, dispatched, sent, ct, calls,
                   returned, faulty, windows, scr,
                   rc, track, pw, ar, ov>>

NextStorage == Next \/ Stop

SpecStorage == InitStorage /\ [][NextStorage]_vars

\* The persisted state, if the object holds one.
Persisted == Get(bucketObj).value
HasPersisted == bucketObj # Null /\ Get(bucketObj).valid

\* The text of the run's whole state, stamped with the run's time.
WholeState == Some([valid |-> TRUE, value |-> [state EXCEPT !.lastRun = Some(now)]])

\* The step in which runMonitoringChecks settles after its loop.
RunSettles == pc = "save" /\ Len(returned') = Len(returned) + 1
\* The step in which a run stops without settling.
RunStops == pc # "idle" /\ pc' = "idle" /\ returned' = returned
\* The step in which a run with the bucket bound begins.
RunBegins == pc = "idle" /\ now' = now + 1 /\ env.MOLTBOT_BUCKET

\* Some alert of the run at time t was dispatched.
AlertedAt(t) == \E k \in 1..Len(dispatched) : dispatched[k].timestamp = t

\* C15: the persisted object changes only in the step that ends a run's
\* loop, once, and then to the text of the run's whole state; while a run is
\* under way nothing of it is persisted, and a run that stops before its
\* write leaves the object as it was.
C15_SingleWholeWrite ==
    /\ [](pc # "idle" => (HasPersisted => Persisted.lastRun # Some(now)))
    /\ [][/\ (bucketObj' # bucketObj) =>
                 /\ RunSettles
                 /\ bucketObj' = WholeState
                 /\ DOMAIN Persisted' = DOMAIN state
                 /\ Persisted'.checks = state.checks
                 /\ Last(returned') = "resolved"
          /\ (RunSettles /\ Last(returned') = "resolved") => bucketObj' # bucketObj
          /\ RunStops => bucketObj' = bucketObj]_vars

\* The first run saved; the second dispatched an alert and stopped: the
\* object is still the first run's.
C15_Witness ==
    /\ pc = "idle"
    /\ returned = <<"resolved">>
    /\ now = clockBefore(config, 0)
    /\ AlertedAt(now)
    /\ HasPersisted /\ Persisted.lastRun = Some(now - 1)
    /\ \A id \in DOMAIN Persisted.checks : Persisted.checks[id].lastCheck = Some(now - 1)

\* The check states of a run that began from the empty state: each has been
\* evaluated once, from unknown.
FromUnknown(cs) ==
    /\ Len(cs.history) = 1
    /\ cs.history[1].timestamp = now
    /\ cs.lastCheck = Some(now)
    /\ cs.consecutiveFailures \in {0, 1}
    /\ cs.status \in {"healthy", "degraded", "unhealthy"}
    /\ (cs.status = "healthy") <=> (cs.consecutiveFailures = 0)
    /\ cs.lastSuccess \in {Null, Some(now)}

\* C16: when the object is absent, cannot be read or holds no JSON, loadState
\* returns the empty state and raises nothing: the run enters its loop, and
\* every check it evaluates starts from unknown, no failures and no history.
C16_FailedLoadStartsEmpty ==
    /\ [](loadFailed =>
             /\ pc # "idle"
             /\ \A id \in DOMAIN state.checks : FromUnknown(state.checks[id])
             /\ (pc = "probe") => config.checks[i].id \notin DOMAIN state.checks
             /\ \A k \in 1..Len(dispatched) :
                   dispatched[k].timestamp = now => dispatched[k].type = "failure")
    /\ [][RunBegins =>
             /\ pc' = "probe"
             /\ returned' = returned
             /\ (~HasPersisted \/ loadFailed') => state' = createEmptyState
             /\ (HasPersisted /\ ~loadFailed') => state' = Persisted
             /\ (~HasPersisted) => loadFailed']_vars

\* The object holds two unhealthy checks but could not be read: both checks
\* were evaluated from unknown, found healthy, and no recovery was alerted.
C16_Witness ==
    /\ loadFailed /\ pc = "save"
    /\ HasPersisted
    /\ \A id \in DOMAIN Persisted.checks : Persisted.checks[id].status = "unhealthy"
    /\ DOMAIN state.checks = DOMAIN Persisted.checks
    /\ \A id \in DOMAIN state.checks :
          state.checks[id].status = "healthy" /\ Len(state.checks[id].history) = 1
    /\ ~AlertedAt(now)

\* C17: a run whose end-of-run put fails settles rejected and leaves the
\* object as it was; a run whose put goes through settles resolved with the
\* object holding its whole state.
C17_FailedWriteFailsRun ==
    [][RunSettles =>
          \/ bucketObj' = WholeState /\ Last(returned') = "resolved"
          \/ bucketObj' = bucketObj /\ bucketObj' # WholeState
             /\ Last(returned') = "rejected"]_vars

\* The first run saved; the second alerted and its put failed: it settled
\* rejected and the object is still the first run's.
C17_Witness ==
    /\ pc = "idle"
    /\ returned = <<"resolved", "rejected">>
    /\ AlertedAt(now)
    /\ HasPersisted /\ Persisted.lastRun = Some(now - 1)
    /\ \A id \in DOMAIN Persisted.checks : Persisted.checks[id].lastCheck = Some(now - 1)

\* ------------------------------------------------- runs without a bucket
\* C19: without the bucket binding every call of runMonitoringChecks returns
\* without error, and there is no probe, no state transition, no alert
\* dispatch and no write: the run's state, the object and the logs stay as
\* they were before the first call.
C19_NoBucketNoRun ==
    (~env.MOLTBOT_BUCKET) =>
        /\ pc = "idle"
        /\ state = createEmptyState /\ result = Null /\ alertType = Null /\ i = 0
        /\ dispatched = <<>> /\ sent = <<>> /\ tasks = <<>> /\ calls = <<>>
        /\ bucketObj \in {Null, saveState(fullHistoryState(config))}
        /\ Len(returned) = now
        /\ \A r \in 1..Len(returned) : returned[r] = "resolved"

\* Two calls were made without the bucket; the object another deployment
\* left is untouched.
C19_Witness ==
    /\ ~env.MOLTBOT_BUCKET
    /\ returned = <<"resolved", "resolved">>
    /\ now = 2
    /\ bucketObj # Null
    /\ env.TELEGRAM_BOT_TOKEN

\* ---------------------------------------------------- maintenance windows
\* A row of maintenance_windows: its scope is a check or a group, its times
\* are on the clock of the runs.
window(checkId, groupId, startsAt, endsAt, suppressAlerts, skipChecks) ==
    [check_id |-> checkId, group_id |-> groupId, starts_at |-> startsAt,
     ends_at |-> endsAt, suppress_alerts |-> suppressAlerts,
     skip_checks |-> skipChecks]

\* The tables a deployment may hold when its run at time t begins: no row; a
\* window on the first check that skips checks, open at t, or over before t;
\* one open at t that only suppresses alerts; both open at t.
WindowTables(t) ==
    { {},
      {window(Some("campermate-website"), Null, t - 1, t + 1, TRUE, TRUE)},
      {window(Some("campermate-website"), Null, t - 1, t, TRUE, TRUE)},
      {window(Some("campermate-website"), Null, t, t + 2, TRUE, FALSE)},
      {window(Some("campermate-website"), Null, t, t + 2, TRUE, FALSE),
       window(Some("sandbox-health"), Null, t, t + 1, FALSE, TRUE)} }

\* A deployment with threshold 1 before its last run, with its table of
\* maintenance windows.
InitMaintenance ==
    /\ config = monitoringConfig(<<CampermateWebsite, SandboxHealth>>, 1)
    /\ env \in {e \in Envs : e.MOLTBOT_BUCKET /\ e.TELEGRAM_BOT_TOKEN}
    /\ now = clockBefore(config, 1)
    /\ bucketObj \in {Null, saveState(runOver(createEmptyState, config, 1, 503, now))}
    /\ Idle
    /\ faulty = NoFaults
    /\ windows \in WindowTables(now + 1)
    /\ ct = NoCall
    /\ scr = NoReceiveCall
    /\ Uncalled

SpecMaintenance == InitMaintenance /\ [][Next]_vars

\* The group of a check: the static configuration puts no check in a group.
GroupOf(check) == Null

\* A window in whose scope the check is and whose [starts_at, ends_at)
\* holds t.
Covers(w, check, t) ==
    /\ \/ w.check_id = Some(check.id)
       \/ w.group_id # Null /\ w.group_id = GroupOf(check)
    /\ w.starts_at <= t /\ t < w.ends_at

SkipsChecks(check, t) == \E w \in windows : Covers(w, check, t) /\ w.skip_checks

\* C20: while a run is under way, a check covered at the run's time by a
\* maintenance window with skip_checks set is not probed: its state stays
\* what was loaded and its history gets no entry of the run.
C20_SkipChecksWindowSkipsProbe ==
    (pc # "idle") =>
        \A k \in 1..Len(config.checks) :
           SkipsChecks(config.checks[k], now) =>
              LET id == config.checks[k].id
              IN /\ ~EvaluatedInRun(k)
                 /\ checkStateOf(state, id) = checkStateOf(loadState(bucketObj, FALSE).state, id)
                 /\ EntriesAt(checkStateOf(state, id), now) = {}

\* Some window covering the check at t suppresses alerts and none skips checks.
SuppressesAlerts(check, t) ==
    /\ \E w \in windows : Covers(w, check, t) /\ w.suppress_alerts
    /\ ~SkipsChecks(check, t)

\* C21: an evaluation of a check covered by a maintenance window with
\* suppress_alerts set (and by none with skip_checks set) updates state and
\* history as any evaluation does, but none of its alerts reaches a channel:
\* no send is started with a payload of that evaluation.
C21_SuppressAlertsWindowSilences ==
    /\ \A k \in 1..Len(sent) :
          ~SuppressesAlerts(CheckOf(sent[k].payload.check), sent[k].payload.timestamp)
    /\ (pc \in {"dispatch", "await", "save"}) =>
          \A k \in 1..Len(config.checks) :
             (SuppressesAlerts(config.checks[k], now) /\ (k < i \/ pc = "save"))
                => EvaluatedInRun(k)

\* ------------------------------------- one check through its evaluations
\* A row of incidents.
incident(checkId, type, startedAt, error) ==
    [check_id |-> checkId, type |-> type, started_at |-> startedAt,
     resolved_at |-> Null, duration_s |-> Null, trigger_error |-> error]

IsOpen(row, checkId) == row.check_id = checkId /\ row.resolved_at = Null

\* An escalation opening a row of its own.
trackIncident_RowPerSeverity(incidents, checkId, status, error, t) ==
    IF status \in {"degraded", "unhealthy"}
    THEN IF \E k \in 1..Len(incidents) :
               IsOpen(incidents[k], checkId) /\ incidents[k].type = status
         THEN incidents
         ELSE Append(incidents, incident(checkId, status, t, error))
    ELSE IF status = "healthy"
    THEN [k \in 1..Len(incidents) |->
            IF IsOpen(incidents[k], checkId)
            THEN [incidents[k] EXCEPT !.resolved_at = Some(t),
                                      !.duration_s = Some(t - incidents[k].started_at)]
            ELSE incidents[k]]
    ELSE incidents

\* Only the incidents of type unhealthy closed on a recovery.
trackIncident_DegradedLeftOpen(incidents, checkId, status, error, t) ==
    IF status \in {"degraded", "unhealthy"}
    THEN IF \E k \in 1..Len(incidents) : IsOpen(incidents[k], checkId)
         THEN [k \in 1..Len(incidents) |->
                 IF IsOpen(incidents[k], checkId)
                 THEN [incidents[k] EXCEPT !.type = status]
                 ELSE incidents[k]]
         ELSE Append(incidents, incident(checkId, status, t, error))
    ELSE IF status = "healthy"
    THEN [k \in 1..Len(incidents) |->
            IF IsOpen(incidents[k], checkId) /\ incidents[k].type = "unhealthy"
            THEN [incidents[k] EXCEPT !.resolved_at = Some(t),
                                      !.duration_s = Some(t - incidents[k].started_at)]
            ELSE incidents[k]]
    ELSE incidents

\* The incident ledger after an evaluation at time t that left the check in
\* status, error being the error of the probe: a degraded or unhealthy check
\* without an open incident gets one; an escalation updates the type of the
\* open one; a healthy check's open incident is resolved.
trackIncident(incidents, checkId, status, error, t) ==
    IF status \in {"degraded", "unhealthy"}
    THEN IF \E k \in 1..Len(incidents) : IsOpen(incidents[k], checkId)
         THEN [k \in 1..Len(incidents) |->
                 IF IsOpen(incidents[k], checkId)
                 THEN [incidents[k] EXCEPT !.type = status]
                 ELSE incidents[k]]
         ELSE Append(incidents, incident(checkId, status, t, error))
    ELSE IF status = "healthy"
    THEN [k \in 1..Len(incidents) |->
            IF IsOpen(incidents[k], checkId)
            THEN [incidents[k] EXCEPT !.resolved_at = Some(t),
                                      !.duration_s = Some(t - incidents[k].started_at)]
            ELSE incidents[k]]
    ELSE incidents

\* The first check from the empty state under a fixed threshold, its alerts
\* and its incidents recorded.
InitTrack ==
    /\ NotRun
    /\ ct = NoCall
    /\ scr = NoReceiveCall
    /\ rc = NoRunCheckCall
    /\ pw = NoPriceCall
    /\ ar = NoRuleCall
    /\ ov = NoOverlap
    /\ \E threshold \in 1..MaxThreshold :
           track = [state |-> createEmptyCheckState(CampermateWebsite.id),
                    threshold |-> threshold, now |-> 0, result |-> Null,
                    alerts |-> <<>>, incidents |-> <<>>, successes |-> <<>>]

\* One evaluation: a probe result, the transition, the alert intent, the
\* incident ledger.
Observe ==
    /\ track.now < MaxEvaluations
    /\ \E r \in Results :
          LET t == track.now + 1
              tr == computeTransition(track.state, r, track.threshold, t)
          IN track' = [state |-> tr.newState, threshold |-> track.threshold,
                       now |-> t, result |-> Some(r),
                       alerts |-> IF tr.alertType = Null THEN track.alerts
                                  ELSE Append(track.alerts, Get(tr.alertType)),
                       incidents |-> trackIncident(track.incidents, track.state.id,
                                                   tr.newState.status, r.error, t),
                       successes |-> Append(track.successes, r.success)]
    /\ UNCHANGED runVars
    /\ UNCHANGED <<ct, scr, rc, pw, ar, ov>>

NextTrack == Observe

SpecTrack == InitTrack /\ [][NextTrack]_vars

\* The open incidents of the check followed.
OpenIncidents == {k \in 1..Len(track.incidents) : IsOpen(track.incidents[k], track.state.id)}

\* C22: at every point of every sequence of evaluations the check has at most
\* one open incident; a step from degraded to unhealthy adds no row.
C22_AtMostOneOpenIncident ==
    /\ [](Cardinality(OpenIncidents) <= 1)
    /\ [][(track.state.status = "degraded" /\ track'.state.status = "unhealthy") =>
             /\ Len(track'.incidents) = Len(track.incidents)
             /\ OpenIncidents' = OpenIncidents]_vars

\* An outage that went from degraded to unhealthy after an earlier, resolved
\* one: one open incident, of type unhealthy, begun when the check degraded.
C22_Witness ==
    /\ track.state.status = "unhealthy"
    /\ track.threshold = 2
    /\ Len(track.incidents) = 2
    /\ track.incidents[1].resolved_at # Null
    /\ OpenIncidents = {2}
    /\ track.incidents[2].type = "unhealthy"
    /\ track.incidents[2].started_at = track.now - 1

\* C23: an incident is opened by the evaluation that takes the check from a
\* better status into degraded or unhealthy, with started_at the time and
\* trigger_error the probe's error, and resolved by the next evaluation that
\* takes it to healthy, with resolved_at the time and the duration their
\* difference; after every evaluation an incident is open exactly when the
\* status is degraded or unhealthy.
C23_IncidentFollowsStatus ==
    /\ []((OpenIncidents # {}) <=> (track.state.status \in {"degraded", "unhealthy"}))
    /\ [][LET bad == {"degraded", "unhealthy"}
              before == track.state.status
              after == track'.state.status
          IN /\ (before \notin bad /\ after \in bad) =>
                   /\ OpenIncidents = {}
                   /\ Len(track'.incidents) = Len(track.incidents) + 1
                   /\ Last(track'.incidents) =
                         incident(track.state.id, after, track'.now,
                                  Get(track'.result).error)
             /\ (before \in bad /\ after = "healthy") =>
                   \A k \in OpenIncidents :
                      /\ track'.incidents[k].resolved_at = Some(track'.now)
                      /\ track'.incidents[k].duration_s =
                            Some(track'.now - track.incidents[k].started_at)
                      /\ track'.incidents[k].started_at = track.incidents[k].started_at
             /\ (before \in bad /\ after \in bad) =>
                   Len(track'.incidents) = Len(track.incidents)
             /\ \A k \in 1..Len(track.incidents) :
                   (k \notin OpenIncidents) => track'.incidents[k] = track.incidents[k]]_vars

\* An incident of four evaluations, opened on a timeout and resolved; the
\* check is healthy and nothing is open.
C23_Witness ==
    /\ track.state.status = "healthy"
    /\ OpenIncidents = {}
    /\ Len(track.incidents) = 1
    /\ track.incidents[1].started_at = 2
    /\ track.incidents[1].resolved_at = Some(6)
    /\ track.incidents[1].duration_s = Some(4)
    /\ track.incidents[1].type = "unhealthy"
    /\ track.incidents[1].trigger_error = Some(ErrTimeout(DefaultTimeoutMs))

\* ------------------------------------------------- runCheck on its own
\* What fetch() may do to an attempt: the outcomes of the runs and, besides,
\* a 204, a connection aborted (ECONNABORTED) before the timer fires, and a
\* throw of something that is no Error.
AttemptOutcomes(timeoutMs) ==
    FetchOutcomes(timeoutMs) \cup
    { [kind |-> "response", status |-> 204, isError |-> FALSE,
       message |-> "", elapsedMs |-> 50],
      [kind |-> "throw", status |-> 0, isError |-> TRUE,
       message |-> "Software caused connection abort", elapsedMs |-> 30],
      [kind |-> "throw", status |-> 0, isError |-> FALSE,
       message |-> "", elapsedMs |-> 5] }

\* A check of the checks table with its retry_count, a timeout, and what
\* each of the retry_count + 1 attempts would meet.
InitRC ==
    /\ NotRun
    /\ ct = NoCall
    /\ scr = NoReceiveCall
    /\ track = NoTrack
    /\ pw = NoPriceCall
    /\ ar = NoRuleCall
    /\ ov = NoOverlap
    /\ \E expectedStatus \in {Null, Some(200), Some(204)},
          timeoutMs \in {DefaultTimeoutMs, 5000},
          retryCount \in 0..MaxRetries :
          \E attempts \in [1..(retryCount + 1) -> AttemptOutcomes(timeoutMs)] :
             rc = [check |-> [CampermateWebsite EXCEPT !.expectedStatus = expectedStatus],
                   timeoutMs |-> timeoutMs, retryCount |-> retryCount,
                   attempts |-> attempts, made |-> 0, out |-> Null]

\* runCheck: one fetch, and the result built from what it met.
CallRC ==
    /\ rc.out = Null
    /\ rc' = [rc EXCEPT !.made = 1,
                        !.out = Some(runCheck(rc.check, rc.attempts[1], rc.timeoutMs))]
    /\ UNCHANGED runVars
    /\ UNCHANGED <<ct, scr, track, pw, ar, ov>>

NextRC == CallRC

SpecRC == InitRC /\ [][NextRC]_vars

RunCheckCalled == rc.out # Null
Reported == Get(rc.out)

\* The attempt is cancelled by the timer, timeoutMs after its start.
TimedOut(o, timeoutMs) ==
    o.kind = "throw" /\ o.message = "The operation was aborted" /\ o.elapsedMs = timeoutMs

\* The attempt after which a probe with the budget of retry_count retries
\* ends: the first that is no transport failure and no timeout, else the last.
LastAttempt ==
    LET ok == {k \in 1..Len(rc.attempts) : rc.attempts[k].kind # "throw"}
    IN IF ok = {} THEN Len(rc.attempts) ELSE CHOOSE k \in ok : \A j \in ok : k <= j

\* The result of an attempt on its own.
ResultOf(o) ==
    IF o.kind = "response"
    THEN LET expected == IF rc.check.expectedStatus = Null THEN 200
                         ELSE Get(rc.check.expectedStatus)
         IN [id |-> rc.check.id, success |-> (o.status = expected),
             statusCode |-> Some(o.status), responseTimeMs |-> o.elapsedMs,
             error |-> IF o.status = expected THEN Null
                       ELSE Some(ErrExpectedStatus(expected, o.status))]
    ELSE [id |-> rc.check.id, success |-> FALSE, statusCode |-> Null,
          responseTimeMs |-> o.elapsedMs, error |-> Reported.error]

\* C24: after a transport failure or timeout the probe is tried again, up to
\* retry_count times; the result is that of the last attempt made, so a
\* failure followed by a success within the budget is reported as success.
C24_RetriedWithinBudget ==
    RunCheckCalled =>
        /\ rc.made = LastAttempt
        /\ rc.made <= rc.retryCount + 1
        /\ Reported.success = ResultOf(rc.attempts[LastAttempt]).success
        /\ Reported.statusCode = ResultOf(rc.attempts[LastAttempt]).statusCode

\* C25: an attempt cancelled by the timeout is reported as a failure without
\* a status code whose error names the timeout, and no other transport
\* failure is reported with that error.
C25_TimeoutDistinguished ==
    RunCheckCalled =>
        LET o == rc.attempts[1]
        IN /\ TimedOut(o, rc.timeoutMs) =>
                 /\ ~Reported.success
                 /\ Reported.statusCode = Null
                 /\ Reported.error = Some(ErrTimeout(rc.timeoutMs))
           /\ (o.kind = "throw" /\ ~TimedOut(o, rc.timeoutMs)) =>
                 /\ ~Reported.success
                 /\ Reported.error # Some(ErrTimeout(rc.timeoutMs))

\* The expectedStatus of the check, 200 when it has none: its one assertion.
ExpectedStatus == IF rc.check.expectedStatus = Null THEN 200 ELSE Get(rc.check.expectedStatus)

priceAlerts_FirstOnly(tracker, baseline, price) ==
    IF tracker.alert_below # Null /\ price < Get(tracker.alert_below)
    THEN <<"drop_below">>
    ELSE IF tracker.alert_above # Null /\ price > Get(tracker.alert_above)
    THEN <<"rise_above">>
    ELSE IF tracker.alert_pct_drop # Null
            /\ (baseline - price) * 100 > Get(tracker.alert_pct_drop) * baseline
    THEN <<"pct_drop">>
    ELSE IF tracker.alert_pct_rise # Null
            /\ (price - baseline) * 100 > Get(tracker.alert_pct_rise) * baseline
    THEN <<"pct_rise">>
    ELSE <<>>

\* The alerts of a successful reading, price against the tracker's rules and
\* its baseline (> 0): every rule that is set is tried, each on its own; the
\* percentage is (price - baseline) / baseline * 100.
priceAlerts(tracker, baseline, price) ==
    (IF tracker.alert_below # Null /\ price < Get(tracker.alert_below)
     THEN <<"drop_below">> ELSE <<>>)
    \o (IF tracker.alert_above # Null /\ price > Get(tracker.alert_above)
        THEN <<"rise_above">> ELSE <<>>)
    \o (IF tracker.alert_pct_drop # Null
           /\ (baseline - price) * 100 > Get(tracker.alert_pct_drop) * baseline
        THEN <<"pct_drop">> ELSE <<>>)
    \o (IF tracker.alert_pct_rise # Null
           /\ (price - baseline) * 100 > Get(tracker.alert_pct_rise) * baseline
        THEN <<"pct_rise">> ELSE <<>>)

\* A tracker with each rule set or not, a baseline of 100 and a reading.
InitPW ==
    /\ NotRun
    /\ ct = NoCall
    /\ scr = NoReceiveCall
    /\ rc = NoRunCheckCall
    /\ track = NoTrack
    /\ ar = NoRuleCall
    /\ ov = NoOverlap
    /\ \E below \in {Null, Some(80)}, above \in {Null, Some(120)},
          drop \in {Null, Some(10)}, rise \in {Null, Some(10)},
          price \in {75, 80, 88, 90, 100, 110, 112, 120, 125} :
          pw = [tracker |-> [alert_below |-> below, alert_above |-> above,
                             alert_pct_drop |-> drop, alert_pct_rise |-> rise],
                baseline |-> 100, price |-> price, out |-> Null]

CallPW ==
    /\ pw.out = Null
    /\ pw' = [pw EXCEPT !.out = Some(priceAlerts(pw.tracker, pw.baseline, pw.price))]
    /\ UNCHANGED runVars
    /\ UNCHANGED <<ct, scr, rc, track, ar, ov>>

NextPW == CallPW

SpecPW == InitPW /\ [][NextPW]_vars

PriceAlerts == Get(pw.out)
Alerted(type) == \E k \in 1..Len(PriceAlerts) : PriceAlerts[k] = type
\* By how many per cent of the baseline the reading is below it.
PctBelow == ((pw.baseline - pw.price) * 100) \div pw.baseline

\* C27: every rule of a tracker that is set is tried on its own and alerts
\* when it fires, whatever the other rules do: a reading 12% below the
\* baseline with alert_pct_drop 10 and no alert_below gives the one alert
\* pct_drop; a reading below alert_below and more than 10% below the baseline
\* gives the two alerts drop_below and pct_drop.
C27_PriceRulesIndependent ==
    (pw.out # Null) =>
        /\ (pw.tracker.alert_pct_drop = Some(10) /\ pw.tracker.alert_below = Null
            /\ PctBelow = 12) => PriceAlerts = <<"pct_drop">>
        /\ (pw.tracker.alert_pct_drop = Some(10) /\ pw.tracker.alert_below # Null
            /\ pw.price < Get(pw.tracker.alert_below) /\ PctBelow > 10) =>
              PriceAlerts = <<"drop_below", "pct_drop">>
        /\ Alerted("drop_below") <=>
              (pw.tracker.alert_below # Null /\ pw.price < Get(pw.tracker.alert_below))
        /\ Alerted("rise_above") <=>
              (pw.tracker.alert_above # Null /\ pw.price > Get(pw.tracker.alert_above))
        /\ Alerted("pct_drop") <=>
              (pw.tracker.alert_pct_drop # Null
               /\ (pw.baseline - pw.price) * 100 > Get(pw.tracker.alert_pct_drop) * pw.baseline)
        /\ Alerted("pct_rise") <=>
              (pw.tracker.alert_pct_rise # Null
               /\ (pw.price - pw.baseline) * 100 > Get(pw.tracker.alert_pct_rise) * pw.baseline)
        /\ Len(PriceAlerts) = Cardinality({PriceAlerts[k] : k \in 1..Len(PriceAlerts)})

\* All four rules set, a reading of 75 against a baseline of 100: two alerts.
C27_Witness ==
    /\ pw.out # Null
    /\ pw.price = 75 /\ pw.baseline = 100
    /\ pw.tracker.alert_below = Some(80) /\ pw.tracker.alert_pct_drop = Some(10)
    /\ pw.tracker.alert_above # Null /\ pw.tracker.alert_pct_rise # Null
    /\ PriceAlerts = <<"drop_below", "pct_drop">>

\* ------------------------------------------------------- the alert rules
\* A row of the alert_rules table.
alertRule(id, check_id, group_id, channel, on_failure, on_recovery, enabled) ==
    [id |-> id, check_id |-> check_id, group_id |-> group_id, channel |-> channel,
     on_failure |-> on_failure, on_recovery |-> on_recovery, enabled |-> enabled]

\* A global rule is a catch-all: it fires only when no narrower rule does.
matchRules_NarrowestWins(rules, type, checkId, group) ==
    LET flagged == {r \in rules : r.enabled
                       /\ IF type = "failure" THEN r.on_failure ELSE r.on_recovery}
        narrow  == {r \in flagged : \/ r.check_id = Some(checkId)
                                    \/ r.group_id # Null /\ r.group_id = group}
        global  == {r \in flagged : r.check_id = Null /\ r.group_id = Null}
    IN  IF narrow # {} THEN narrow ELSE global

\* The rules that fire for an alert of the given type on the target checkId of
\* the given group (Null: no group): the enabled rules with the flag of the
\* type that are global, or of the target, or of the target's group.
matchRules(rules, type, checkId, group) ==
    {r \in rules :
        /\ r.enabled
        /\ IF type = "failure" THEN r.on_failure ELSE r.on_recovery
        /\ \/ r.check_id = Null /\ r.group_id = Null
           \/ r.check_id = Some(checkId)
           \/ r.group_id # Null /\ r.group_id = group}

\* The rows the rule table is filled from.
RulePool ==
    {alertRule(1, Null, Null, "slack", TRUE, TRUE, TRUE),
     alertRule(2, Some(CampermateWebsite.id), Null, "email", TRUE, FALSE, TRUE),
     alertRule(3, Some(SandboxHealth.id), Null, "email", TRUE, TRUE, TRUE),
     alertRule(4, Null, Some("web"), "slack", FALSE, TRUE, TRUE),
     alertRule(5, Null, Some("api"), "slack", TRUE, TRUE, TRUE),
     alertRule(6, Null, Null, "email", TRUE, TRUE, FALSE),
     alertRule(7, Some(CampermateWebsite.id), Null, "slack", TRUE, TRUE, FALSE)}

\* Any table of rules, an alert of either type on campermate-website, in the
\* group web or in none.
InitAR ==
    /\ NotRun
    /\ ct = NoCall
    /\ scr = NoReceiveCall
    /\ rc = NoRunCheckCall
    /\ track = NoTrack
    /\ pw = NoPriceCall
    /\ ov = NoOverlap
    /\ \E rules \in SUBSET RulePool, type \in {"failure", "recovery"},
          group \in {Null, Some("web")} :
          ar = [rules |-> rules, alertType |-> type, check |-> CampermateWebsite.id,
                group |-> group, out |-> Null]

CallAR ==
    /\ ar.out = Null
    /\ ar' = [ar EXCEPT !.out = Some(matchRules(ar.rules, ar.alertType, ar.check, ar.group))]
    /\ UNCHANGED runVars
    /\ UNCHANGED <<ct, scr, rc, track, pw, ov>>

NextAR == CallAR

SpecAR == InitAR /\ [][NextAR]_vars

Fired == Get(ar.out)
IsGlobal(r) == r.check_id = Null /\ r.group_id = Null
OfTarget(r) == r.check_id # Null /\ Get(r.check_id) = ar.check
OfTargetGroup(r) == r.group_id # Null /\ ar.group # Null /\ Get(r.group_id) = Get(ar.group)
FlagOf(r) == (ar.alertType = "failure" /\ r.on_failure)
             \/ (ar.alertType = "recovery" /\ r.on_recovery)

\* C28: for an alert intent, every enabled rule that is global, or of the
\* target, or of the target's group, and whose on-failure/on-recovery flag is
\* the one of the alert type, fires, and no other rule does; a global rule
\* fires whether or not a narrower rule fires too.
C28_AllMatchingRulesFire ==
    (ar.out # Null) =>
        /\ \A r \in ar.rules :
              (r \in Fired) <=>
                  (r.enabled /\ FlagOf(r)
                   /\ (IsGlobal(r) \/ OfTarget(r) \/ OfTargetGroup(r)))
        /\ Fired \subseteq ar.rules
        /\ \A g \in ar.rules :
              (IsGlobal(g) /\ g.enabled /\ FlagOf(g)) => g \in Fired

\* A failure alert with the global rule 1 and the target's rule 2 in the
\* table: both fire, the disabled and the foreign rules do not.
C28_Witness ==
    /\ ar.out # Null
    /\ ar.alertType = "failure"
    /\ ar.rules = RulePool
    /\ {r.id : r \in Fired} = {1, 2}

\* ------------------------------------------- failures of an unhealthy check
WasUnhealthy == ct.state.status = "unhealthy"

\* C29 as stated: a failed probe on a check whose prior status is unhealthy
\* leaves the status unhealthy and gives no alert, whatever the threshold and
\* the stored consecutiveFailures are.
C29_UnhealthyStaysUnhealthy ==
    (Called /\ WasUnhealthy /\ ~ct.result.success) =>
        /\ Out.newState.status = "unhealthy"
        /\ Out.alertType = Null

\* C29 amended: a failed probe on a check whose prior status is unhealthy
\* gives no alert; the status stays unhealthy when the stored
\* consecutiveFailures plus one reaches the threshold and becomes degraded
\* when it does not; a successful probe takes the check to healthy.
C29_UnhealthyFailureByThreshold ==
    (Called /\ WasUnhealthy) =>
        IF ct.result.success
        THEN Out.newState.status = "healthy"
        ELSE /\ Out.alertType = Null
             /\ Out.newState.consecutiveFailures = ct.state.consecutiveFailures + 1
             /\ Out.newState.status =
                    IF ct.state.consecutiveFailures + 1 >= ct.threshold
                    THEN "unhealthy" ELSE "degraded"

\* An unhealthy check with two failures stored fails again under a threshold
\* raised to 3 and stays unhealthy, silently.
C29_Witness ==
    /\ Called /\ WasUnhealthy /\ ~ct.result.success
    /\ ct.state.consecutiveFailures = 2 /\ ct.threshold = 3
    /\ Out.newState.status = "unhealthy"
    /\ Out.newState.consecutiveFailures = 3
    /\ Out.alertType = Null

\* ------------------------------------------------- the sequence of alerts
\* C30: the alerts of a check evaluated from the empty state under a fixed
\* threshold alternate failure, recovery, failure, ..., starting with a
\* failure: the k-th alert is a failure for odd k and a recovery for even k;
\* and an evaluation adds a failure alert only when the last alert is not a
\* failure, a recovery alert only after a failure alert.
C30_AlertsAlternate ==
    /\ [](\A k \in 1..Len(track.alerts) :
            track.alerts[k] = IF k % 2 = 1 THEN "failure" ELSE "recovery")
    /\ [][\A type \in {"failure", "recovery"} :
            (track.alerts' = Append(track.alerts, type)) =>
               IF type = "failure"
               THEN track.alerts = <<>>
                    \/ track.alerts[Len(track.alerts)] = "recovery"
               ELSE track.alerts # <<>>
                    /\ track.alerts[Len(track.alerts)] = "failure"]_vars

\* Two outages and two recoveries.
C30_Witness ==
    track.alerts = <<"failure", "recovery", "failure", "recovery">>

\* ---------------------------------------------- the status and the counter
Tracked == track.state
Evaluations == track.now

\* C31: after every evaluation of a check followed from the empty state under
\* a fixed threshold the status is the one the counter gives: healthy exactly
\* when consecutiveFailures is 0, degraded exactly when it is over 0 and under
\* the threshold, unhealthy exactly when it is at or over the threshold; the
\* status is unknown before the first evaluation only.
C31_StatusFollowsCounter ==
    /\ (Evaluations = 0) => Tracked.status = "unknown"
    /\ (Evaluations > 0) =>
        /\ Tracked.status # "unknown"
        /\ (Tracked.status = "healthy") <=> (Tracked.consecutiveFailures = 0)
        /\ (Tracked.status = "degraded") <=>
              (0 < Tracked.consecutiveFailures
               /\ Tracked.consecutiveFailures < track.threshold)
        /\ (Tracked.status = "unhealthy") <=>
              (Tracked.consecutiveFailures >= track.threshold)

\* A check under threshold 3 that has been healthy, degraded twice over and
\* is unhealthy now.
C31_Witness ==
    /\ track.threshold = 3
    /\ track.successes = <<TRUE, FALSE, FALSE, FALSE>>
    /\ Tracked.status = "unhealthy"
    /\ Tracked.consecutiveFailures = 3

\* The failed evaluations at the end of a sequence of outcomes.
RECURSIVE TrailingFailures(_)
TrailingFailures(successes) ==
    IF successes = <<>> \/ successes[Len(successes)] THEN 0
    ELSE 1 + TrailingFailures(SubSeq(successes, 1, Len(successes) - 1))

\* C32: consecutiveFailures of a check followed from the empty state is the
\* number of failed evaluations since the last successful one, or since the
\* creation when none succeeded; it is never negative, and an evaluation
\* changes it by +1 when it fails and sets it to 0 when it succeeds.
C32_CounterCountsFailures ==
    /\ [](/\ Tracked.consecutiveFailures = TrailingFailures(track.successes)
          /\ Tracked.consecutiveFailures >= 0)
    /\ [][(track'.now = track.now + 1) =>
             track'.state.consecutiveFailures =
                 IF Get(track'.result).success THEN 0
                 ELSE track.state.consecutiveFailures + 1]_vars

\* Two failures after a success that followed three failures.
C32_Witness ==
    /\ track.successes = <<FALSE, FALSE, FALSE, TRUE, FALSE, FALSE>>
    /\ Tracked.consecutiveFailures = 2

\* ------------------------------------------------ the fields of the record
\* The step is one evaluation of the check followed.
Observed == track'.now = track.now + 1

\* C38: every evaluation sets lastCheck to the time of the evaluation and
\* responseTimeMs to the elapsed time of its probe; lastSuccess is set by a
\* successful evaluation and left as it was by a failed one; the id of the
\* check is never changed.
C38_TimestampsAndId ==
    [][Observed =>
          /\ track'.state.lastCheck = Some(track'.now)
          /\ track'.state.responseTimeMs = Some(Get(track'.result).responseTimeMs)
          /\ track'.state.lastSuccess =
                 IF Get(track'.result).success THEN Some(track'.now)
                 ELSE track.state.lastSuccess
          /\ track'.state.id = track.state.id]_vars

\* A failed evaluation at time 3 of a check that last succeeded at time 2.
C38_Witness ==
    /\ track.now = 3
    /\ track.successes = <<FALSE, TRUE, FALSE>>
    /\ Tracked.lastCheck = Some(3)
    /\ Tracked.lastSuccess = Some(2)
    /\ Tracked.responseTimeMs = Some(Get(track.result).responseTimeMs)
    /\ Tracked.id = CampermateWebsite.id

\* ------------------------------------------------ the payload of an alert
\* The payload carries the state an evaluation at its time left, with the
\* result of that evaluation.
PostTransition(p) ==
    LET cs == p.checkState
    IN /\ cs.id = p.check
       /\ cs.lastCheck = Some(p.timestamp)
       /\ cs.responseTimeMs = Some(p.result.responseTimeMs)
       /\ cs.history # <<>>
       /\ Last(cs.history).timestamp = p.timestamp
       /\ Last(cs.history).status = cs.status
       /\ Last(cs.history).error = p.result.error

\* C33: the state in the payload of every alert dispatched is the state after
\* the transition and agrees with the type of the alert: a failure alert
\* carries status unhealthy, consecutiveFailures at or over the threshold of
\* the check and a failed result; a recovery alert carries status healthy,
\* consecutiveFailures 0 and a successful result; no run dispatches two
\* alerts for one check; and the payload is built from the state and the
\* result the run holds for the check when it dispatches.
C33_PayloadIsPostTransition ==
    /\ [](\A k \in 1..Len(dispatched) :
            LET p == dispatched[k]
            IN /\ PostTransition(p)
               /\ p.type \in {"failure", "recovery"}
               /\ (p.type = "failure") =>
                     /\ p.checkState.status = "unhealthy"
                     /\ p.checkState.consecutiveFailures >= Threshold(CheckOf(p.check))
                     /\ ~p.result.success
               /\ (p.type = "recovery") =>
                     /\ p.checkState.status = "healthy"
                     /\ p.checkState.consecutiveFailures = 0
                     /\ p.result.success
               /\ \A j \in 1..Len(dispatched) :
                     (dispatched[j].check = p.check
                      /\ dispatched[j].timestamp = p.timestamp) => j = k)
    /\ [][(dispatched' # dispatched) =>
             /\ dispatched' = Append(dispatched, Last(dispatched'))
             /\ Last(dispatched').checkState = state.checks[Cur.id]
             /\ Last(dispatched').result = Res
             /\ Last(dispatched').type = Get(alertType)]_vars

\* A failure alert of one run and the recovery alert of the next, for the
\* same check.
C33_Witness ==
    /\ Len(dispatched) >= 2
    /\ dispatched[1].type = "failure" /\ dispatched[2].type = "recovery"
    /\ dispatched[1].check = dispatched[2].check
    /\ dispatched[1].checkState.status = "unhealthy"
    /\ dispatched[2].checkState.status = "healthy"
    /\ dispatched[2].timestamp = dispatched[1].timestamp + 1

\* --------------------------------------------- alerts before the write
SendsPending == \E k \in 1..Len(tasks) : tasks[k].outcome = "pending"
\* The alerts dispatched by the run at time t.
AlertsOf(t) == {k \in 1..Len(dispatched) : dispatched[k].timestamp = t}
\* The persisted state holds the evaluation of check id made at time t.
PersistedAt(id, t) ==
    /\ HasPersisted
    /\ id \in DOMAIN Persisted.checks
    /\ Persisted.checks[id].lastCheck = Some(t)

\* C34: in every run each dispatch of an alert is over before the write of
\* the state begins: when the run is at its write no send is in flight and
\* every dispatch of the run has returned; an alert is dispatched only
\* while the persisted state holds nothing of the run, and the write does not
\* dispatch; the transition behind an alert is persisted by the write of its
\* own run, which stores the state the alert carried.
C34_DispatchBeforeSave ==
    /\ []((pc = "save") =>
            /\ ~SendsPending
            /\ \A k \in AlertsOf(now) :
                  \E c \in 1..Len(calls) : calls[c].payload = dispatched[k])
    /\ [][(dispatched' # dispatched) =>
             /\ pc = "dispatch"
             /\ bucketObj' = bucketObj
             /\ Last(dispatched').timestamp = now
             /\ ~PersistedAt(Last(dispatched').check, now)
             /\ ~(HasPersisted /\ Persisted.lastRun = Some(now))]_vars
    /\ [][(bucketObj' # bucketObj) =>
             /\ pc = "save"
             /\ ~SendsPending
             /\ dispatched' = dispatched /\ sent' = sent
             /\ \A k \in AlertsOf(now) :
                   Get(bucketObj').value.checks[dispatched[k].check]
                       = dispatched[k].checkState]_vars

\* A run has dispatched an alert and then persisted the state the alert
\* carried.
C34_Witness ==
    /\ pc = "idle"
    /\ \E k \in AlertsOf(now) :
          /\ PersistedAt(dispatched[k].check, now)
          /\ Persisted.checks[dispatched[k].check] = dispatched[k].checkState
          /\ Persisted.lastRun = Some(now)
          /\ \E c \in 1..Len(calls) :
                calls[c].payload = dispatched[k] /\ calls[c].tasks # <<>>

\* ------------------------------------------- the entries a run leaves alone
\* A deployment two runs before its clock runs out whose check list is not
\* the one its persisted state was written under: checks were added to the
\* configuration, or taken out of it, since.
InitFrame ==
    /\ \E checks \in {<<CampermateWebsite>>, <<SandboxHealth>>,
                      <<CampermateWebsite, SandboxHealth>>},
          threshold \in 1..2 :
           config = monitoringConfig(checks, threshold)
    /\ env \in {e \in Envs : e.MOLTBOT_BUCKET}
    /\ now = clockBefore(config, 2)
    /\ \E stored \in {<<CampermateWebsite>>, <<SandboxHealth>>,
                      <<CampermateWebsite, SandboxHealth>>},
          status \in {200, 503} :
           bucketObj \in {Null,
                          saveState(runOver(createEmptyState,
                                            monitoringConfig(stored, 2), 1, status, now))}
    /\ Idle
    /\ faulty = NoFaults
    /\ windows = {}
    /\ ct = NoCall
    /\ scr = NoReceiveCall
    /\ Uncalled

SpecFrame == InitFrame /\ [][Next]_vars

ConfigIds == {config.checks[k].id : k \in 1..Len(config.checks)}
\* The entries of the persisted state whose check is not configured.
Orphans == DOMAIN StoredChecks \ ConfigIds
\* The state a first evaluation at time t leaves.
FirstEntry(cs, id, t) ==
    /\ cs.id = id
    /\ cs.lastCheck = Some(t)
    /\ Len(cs.history) = 1
    /\ cs.history[1].timestamp = t
    /\ cs.consecutiveFailures \in {0, 1}
    /\ cs.lastSuccess = IF cs.consecutiveFailures = 0 THEN Some(t) ELSE Null
    /\ (cs.consecutiveFailures = 0) => cs.lastError = Null

\* C35: a run changes the entries of the checks it evaluates and no other:
\* all through the run the entry of every id of the loaded state that is not
\* configured is as it was loaded; an evaluation changes the entry of its own
\* check only, and the entry of an id without one is made from the empty
\* state; the write puts back every entry that was loaded, those of the ids
\* not configured unchanged, and adds entries for configured ids only.
C35_OnlyEvaluatedEntriesChange ==
    /\ []((pc # "idle") =>
            \A id \in Orphans :
               id \in DOMAIN state.checks /\ state.checks[id] = StoredChecks[id])
    /\ [][Evaluated =>
             /\ DOMAIN state'.checks = DOMAIN state.checks \cup {Cur.id}
             /\ \A id \in DOMAIN state.checks \ {Cur.id} :
                   state'.checks[id] = state.checks[id]
             /\ (Cur.id \notin DOMAIN state.checks) => FirstEntry(NewState, Cur.id, now)]_vars
    /\ [][(bucketObj' # bucketObj) =>
             LET written == Get(bucketObj').value.checks
             IN /\ DOMAIN written = DOMAIN StoredChecks \cup ConfigIds
                /\ \A id \in Orphans : written[id] = StoredChecks[id]
                /\ \A id \in ConfigIds : written[id].lastCheck = Some(now)]_vars

\* sandbox-health was taken out of the configuration and campermate-website
\* put in: after the run the persisted state holds the old entry as it was
\* and a first entry for the new check.
C35_Witness ==
    /\ pc = "idle"
    /\ ConfigIds = {CampermateWebsite.id}
    /\ DOMAIN StoredChecks = {CampermateWebsite.id, SandboxHealth.id}
    /\ StoredChecks[SandboxHealth.id].lastCheck = Some(now - 1)
    /\ Len(StoredChecks[SandboxHealth.id].history) = 1
    /\ FirstEntry(StoredChecks[CampermateWebsite.id], CampermateWebsite.id, now)

\* ----------------------------------------------------- runs that overlap
\* A scheduled run may begin before the one before it has ended: each run
\* has its own locals, the bucket object is the one thing they share.
NewRun == [pc |-> "idle", state |-> createEmptyState, loaded |-> createEmptyState,
           i |-> 0, at |-> 0, alerts |-> <<>>]

\* Two runs to come on a deployment with both checks, nothing persisted or
\* the state of a run in which every probe gave the same answer.
InitOverlap ==
    /\ \E threshold \in 1..2 :
           config = monitoringConfig(<<CampermateWebsite, SandboxHealth>>, threshold)
    /\ env \in {e \in Envs : e.MOLTBOT_BUCKET /\ e.TELEGRAM_BOT_TOKEN}
    /\ now = 0
    /\ \E status \in {200, 503} :
           bucketObj \in {Null, saveState(runOver(createEmptyState, config, 1, status, 0))}
    /\ Idle
    /\ faulty = NoFaults
    /\ windows = {}
    /\ ct = NoCall
    /\ scr = NoReceiveCall
    /\ rc = NoRunCheckCall
    /\ track = NoTrack
    /\ pw = NoPriceCall
    /\ ar = NoRuleCall
    /\ ov = [runs |-> <<NewRun, NewRun>>, events |-> <<>>]

\* Run r begins: the clock gives its time, loadState gives its state.
LoadRun(r) ==
    /\ ov.runs[r].pc = "idle"
    /\ hasBucket(env)
    /\ now' = now + 1
    /\ LET loaded == loadState(bucketObj, FALSE).state
       IN ov' = [ov EXCEPT
                    !.runs[r] = [pc |-> "probe", state |-> loaded, loaded |-> loaded,
                                 i |-> 1, at |-> now + 1, alerts |-> <<>>],
                    !.events = Append(@, [op |-> "load", run |-> r])]
    /\ UNCHANGED <<config, env, bucketObj, pc, state, i, result, alertType,
                   dispatched, sent, ct, tasks, calls, returned, loadFailed,
                   faulty, windows, scr, rc, track, pw, ar>>

\* The probe of run r's check settles; the transition, the history entry,
\* the assignment into the run's state and the alert, if any, follow.
ProbeRun(r) ==
    /\ ov.runs[r].pc = "probe"
    /\ LET run == ov.runs[r]
           check == config.checks[run.i]
       IN \E outcome \in FetchOutcomes(timeoutOf(config, check)) :
             LET ev == evaluate(run.state, config, check, outcome, run.at)
                 last == run.i = Len(config.checks)
             IN ov' = [ov EXCEPT
                          !.runs[r].state = ev.state,
                          !.runs[r].alerts = IF ev.alertType = Null THEN @
                                             ELSE Append(@, Get(ev.alertType)),
                          !.runs[r].i = IF last THEN run.i ELSE run.i + 1,
                          !.runs[r].pc = IF last THEN "save" ELSE "probe"]
    /\ UNCHANGED <<config, env, bucketObj, now, pc, state, i, result, alertType,
                   dispatched, sent, ct, tasks, calls, returned, loadFailed,
                   faulty, windows, scr, rc, track, pw, ar>>

\* Run r stamps its state and puts it.
SaveRun(r) ==
    /\ ov.runs[r].pc = "save"
    /\ LET run == ov.runs[r]
       IN bucketObj' = put(bucketObj,
                           saveState([run.state EXCEPT !.lastRun = Some(run.at)]))
    /\ ov' = [ov EXCEPT !.runs[r].pc = "done",
                        !.events = Append(@, [op |-> "save", run |-> r])]
    /\ UNCHANGED <<config, env, now, pc, state, i, result, alertType,
                   dispatched, sent, ct, tasks, calls, returned, loadFailed,
                   faulty, windows, scr, rc, track, pw, ar>>

NextOverlap == \E r \in 1..2 : LoadRun(r) \/ ProbeRun(r) \/ SaveRun(r)

SpecOverlap == InitOverlap /\ [][NextOverlap]_vars

BothDone == \A r \in 1..2 : ov.runs[r].pc = "done"
EventAt(op, r) == CHOOSE k \in 1..Len(ov.events) : ov.events[k] = [op |-> op, run |-> r]
\* Both runs loaded the state before either saved.
Overlapped ==
    \A r \in 1..2, q \in 1..2 : EventAt("load", r) < EventAt("save", q)
LastSaver == Last(ov.events).run
FirstSaver == 3 - LastSaver

\* C36: when two runs overlap, both loading the state before either saves,
\* the persisted state after both is the whole state of the run that saved
\* last, stamped with that run's time: each entry is the entry that run
\* loaded with that run's one evaluation added, and nothing of the run that
\* saved first is in it.
C36_LastWriterWins ==
    (BothDone /\ Overlapped) =>
        LET winner == ov.runs[LastSaver]
            loser == ov.runs[FirstSaver]
        IN /\ HasPersisted
           /\ Persisted = [winner.state EXCEPT !.lastRun = Some(winner.at)]
           /\ DOMAIN Persisted.checks = ConfigIds
           /\ \A id \in ConfigIds :
                 LET cs == Persisted.checks[id]
                     was == checkStateOf(winner.loaded, id)
                 IN /\ cs.lastCheck = Some(winner.at)
                    /\ Len(cs.history) = Len(was.history) + 1
                    /\ SubSeq(cs.history, 1, Len(was.history)) = was.history
                    /\ Last(cs.history).timestamp = winner.at
                    /\ EntriesAt(cs, loser.at) = {}
                    /\ cs.lastCheck # loser.state.checks[id].lastCheck

\* The run that began first saved last: it found both checks up, while the
\* run that began second and saved first had found campermate-website down
\* and alerted; the persisted state says healthy.
C36_Witness ==
    /\ BothDone /\ Overlapped
    /\ ov.runs[LastSaver].at = 1
    /\ ov.runs[FirstSaver].alerts = <<"failure">>
    /\ ov.runs[FirstSaver].state.checks[CampermateWebsite.id].status = "unhealthy"
    /\ \A id \in ConfigIds : Persisted.checks[id].status = "healthy"
    /\ Persisted.lastRun = Some(1)

\* ------------------------------------------------ credentials of channels
\* The bucket bound and each secret set or not, one by one.
CredentialEnvs ==
    { [MOLTBOT_BUCKET |-> TRUE, SLACK_WEBHOOK_URL |-> slack,
       TELEGRAM_BOT_TOKEN |-> token, MONITORING_TELEGRAM_CHAT_ID |-> chat,
       RESEND_API_KEY |-> key, RESEND_FROM_EMAIL |-> from,
       MONITORING_EMAIL_TO |-> to] :
        slack \in BOOLEAN, token \in BOOLEAN, chat \in BOOLEAN,
        key \in BOOLEAN, from \in BOOLEAN, to \in BOOLEAN }

\* A deployment with one check and threshold 1 before its last run, with
\* any of the secrets missing: nothing persisted yet, or the state of a run
\* in which the probe answered 503.
InitCredentials ==
    /\ \E channels \in ChannelSets :
           config = [monitoringConfig(<<CampermateWebsite>>, 1)
                        EXCEPT !.channels = channels]
    /\ env \in CredentialEnvs
    /\ now = clockBefore(config, 1)
    /\ bucketObj \in {Null, saveState(runOver(createEmptyState, config, 1, 503, now))}
    /\ Idle
    /\ faulty = NoFaults
    /\ windows = {}
    /\ ct = NoCall
    /\ scr = NoReceiveCall
    /\ Uncalled

SpecCredentials == InitCredentials /\ [][Next]_vars

\* The secrets a channel of the type is sent through.
Secrets(type) ==
    CASE type = "slack" -> {"SLACK_WEBHOOK_URL"}
      [] type = "telegram" -> {"TELEGRAM_BOT_TOKEN", "MONITORING_TELEGRAM_CHAT_ID"}
      [] type = "email" -> {"RESEND_API_KEY", "RESEND_FROM_EMAIL", "MONITORING_EMAIL_TO"}
AllSecretsSet(type) == \A name \in Secrets(type) : env[name]
\* The types of the channels an alert of the check is due to.
Due(check) ==
    {config.channels[k].type : k \in
        {j \in 1..Len(config.channels) :
            /\ Matched(config.channels[j], check)
            /\ AllSecretsSet(config.channels[j].type)}}
SentTo(ts) == {ts[k].channel : k \in 1..Len(ts)}

\* C37: dispatchAlerts sends to a channel exactly when the channel is
\* enabled, its tags match the check's and every secret of its type is set,
\* once each; a matched channel with a secret missing is sent nothing and the
\* dispatch settles without error all the same, as does the run; and the
\* state the alert carried is the run's state of the check and is what the
\* run persists.
C37_SendsNeedAllCredentials ==
    /\ (pc = "await") =>
          /\ SentTo(tasks) = Due(CheckOf(Last(dispatched).check))
          /\ Len(tasks) = Cardinality(SentTo(tasks))
    /\ \A c \in 1..Len(calls) :
          /\ SentTo(calls[c].tasks) = Due(CheckOf(calls[c].payload.check))
          /\ Len(calls[c].tasks) = Cardinality(SentTo(calls[c].tasks))
          /\ calls[c].settled = "fulfilled"
    /\ \A r \in 1..Len(returned) : returned[r] = "resolved"
    /\ \A k \in AlertsOf(now) :
          IF pc = "idle"
          THEN PersistedAt(dispatched[k].check, now)
               /\ Persisted.checks[dispatched[k].check] = dispatched[k].checkState
          ELSE state.checks[dispatched[k].check] = dispatched[k].checkState

\* Telegram is on and untagged and has its bot token but no chat id: the
\* failure alert went to slack and email alone, without error, and the
\* check is persisted as unhealthy.
C37_Witness ==
    /\ pc = "idle" /\ returned = <<"resolved">>
    /\ ChannelOf("telegram").enabled /\ ChannelOf("telegram").tags = Null
    /\ env.TELEGRAM_BOT_TOKEN /\ ~env.MONITORING_TELEGRAM_CHAT_ID
    /\ Len(calls) = 1
    /\ calls[1].payload.type = "failure"
    /\ SentTo(calls[1].tasks) = {"slack", "email"}
    /\ calls[1].settled = "fulfilled"
    /\ Persisted.checks[calls[1].payload.check].status = "unhealthy"

====
